---- MODULE Spec2Model ----
(***************************************************************************)
(* MailBuddy: the IMAP folder manager (utils/email_folder_manager.py) and  *)
(* the rule-based triage classifier (utils/mailbuddy_triage.py).           *)
(*                                                                         *)
(* The folder manager is modelled command by command: every call on the    *)
(* imaplib handle is one step whose outcome the server chooses ("ok",      *)
(* "no" = a NO status returned in the result tuple, "raise" = an exception *)
(* such as BAD or a dropped connection, "client_error" = imaplib refuses   *)
(* the command in the connection's state and sends nothing).               *)
(***************************************************************************)
EXTENDS Integers, Sequences, FiniteSets, TLC

VARIABLES
    folder_mapping,   \* self.folder_mapping: sequence of <<category, folder>>
    imap,             \* self._imap: 0 is None, else the id of a connection
    conn,             \* the connections opened so far: state and selection
    srvFolders,       \* folders existing on the server
    listStyle,        \* how the server writes names in LIST replies
    mailbox,          \* folder -> sequence of [id, deleted]
    pc,               \* caller -> position inside the operation it runs
    args,             \* caller -> arguments of the running / last operation
    loc,              \* caller -> local variables of the running operation
    log,              \* caller -> calls made on the handle by that operation
    ret,              \* caller -> value returned by the last operation
    last,             \* caller -> facts recorded when the operation started
    prev,             \* caller -> the operation completed before that one
    locking,          \* the callers run every whole operation under one lock
    email,            \* the Email given to the classifier
    known_contacts,   \* TriageAgent.known_contacts
    triage,           \* the EmailTriageResult returned for email
    crewai,           \* TriageAgent.crewai: TRUE when the module was imported
    delegate,         \* what the CrewAI call of the last analyze() did
    email_dict,       \* the argument of TriageTask.run
    error,            \* the exception the last call of the triage module raised
    analyzed,         \* TriageAgent.analyze was invoked
    held,             \* caller -> the listing it keeps and the handles it moved
    within            \* caller -> where it is with respect to a with-block

sessionVars == <<folder_mapping, imap, conn, srvFolders, listStyle, mailbox,
                 pc, args, loc, log, ret, last, prev, locking, held, within>>

triageVars == <<email, known_contacts, triage, crewai, delegate, email_dict,
                error, analyzed>>

callerVars == <<held, within>>

vars == <<folder_mapping, imap, conn, srvFolders, listStyle, mailbox,
          pc, args, loc, log, ret, last, prev, locking,
          email, known_contacts, triage,
          crewai, delegate, email_dict, error, analyzed, held, within>>

-----------------------------------------------------------------------------
(* Bounds *)

MaxConns == 2      \* connections a behaviour may open
MaxMsgs == 2       \* messages a folder may hold
MaxLimit == 2      \* largest limit passed to search_emails

-----------------------------------------------------------------------------
(* Folder mapping *)

Categories ==
    {"URGENT", "IMPORTANT", "NEWSLETTER", "PROMOTIONAL", "OTP_RECEIPT", "OTHER"}

DEFAULT_FOLDER_MAPPING ==
    << <<"URGENT", "Urgent">>, <<"IMPORTANT", "Important">>,
       <<"NEWSLETTER", "Newsletters">>, <<"PROMOTIONAL", "Promotions">>,
       <<"OTP_RECEIPT", "Receipts">>, <<"OTHER", "Archive">> >>

\* the custom mapping of test_folder_mapping
custom_mapping ==
    << <<"URGENT", "High_Priority">>, <<"NEWSLETTER", "Updates">>,
       <<"OTHER", "General">> >>

\* a custom mapping that sends the default category to the inbox
inbox_mapping ==
    << <<"URGENT", "Urgent">>, <<"OTHER", "Inbox">> >>

\* a custom mapping of two categories
urgent_mapping ==
    << <<"URGENT", "Urgent">>, <<"OTHER", "Archive">> >>

\* a mapping with the one entry a lookup needs
archive_mapping == << <<"OTHER", "Archive">> >>

\* a custom mapping that sends two categories to one folder
shared_mapping ==
    << <<"URGENT", "General">>, <<"OTHER", "General">> >>

\* a custom mapping without an entry for OTHER
partial_mapping == << <<"URGENT", "High_Priority">> >>

\* the folder_mapping arguments given to the constructor; <<>> is None / {}
MappingArgs == {<<>>, custom_mapping, inbox_mapping}

\* __init__: folder_mapping or self.DEFAULT_FOLDER_MAPPING
InitMapping(arg) == IF arg = <<>> THEN DEFAULT_FOLDER_MAPPING ELSE arg

MappingKeys(m) == {m[i][1] : i \in 1..Len(m)}
MappingValues(m) == {m[i][2] : i \in 1..Len(m)}

\* dict lookup m[key]; "KeyError" when the key is absent
DictGet(m, key) ==
    IF key \in MappingKeys(m)
    THEN m[CHOOSE i \in 1..Len(m) : m[i][1] = key][2]
    ELSE "KeyError"

\* variant: folder_mapping[category], without the default
get_folder_for_category_NoDefault(m, category) == DictGet(m, category)

\* get_folder_for_category: folder_mapping.get(category, folder_mapping["OTHER"])
\* (the default argument is evaluated before the lookup)
get_folder_for_category(m, category) ==
    LET default == DictGet(m, "OTHER")
    IN  IF default = "KeyError" THEN "KeyError"
        ELSE IF category \in MappingKeys(m) THEN DictGet(m, category)
        ELSE default

-----------------------------------------------------------------------------
(* The server side: folder names and LIST replies *)

AllFolders ==
    {"INBOX"} \cup MappingValues(DEFAULT_FOLDER_MAPPING)
              \cup MappingValues(custom_mapping)
              \cup MappingValues(inbox_mapping)
              \cup MappingValues(archive_mapping)

\* str.upper() on the folder names of the model
Upper(name) == IF name = "Inbox" THEN "INBOX" ELSE name

\* the server compares the name INBOX case-insensitively
Canon(name) == IF Upper(name) = "INBOX" THEN "INBOX" ELSE name

\* the mailboxes a server can hold
MailboxNames == {Canon(f) : f \in AllFolders}

Exists(name) == Canon(name) \in srvFolders

QUOTE == "\""
SPACE == " "

\* one line of a LIST reply; a server writes the name as a quoted string or
\* as an atom
ListLine(name, style) ==
    IF style = "quoted"
    THEN <<"(", ")", SPACE, QUOTE, "/", QUOTE, SPACE, QUOTE, name, QUOTE>>
    ELSE <<"(", ")", SPACE, QUOTE, "/", QUOTE, SPACE, name>>

\* the text that comes with a NO reply
ErrorLine == <<"failed">>

SetToSeq(S) ==
    CHOOSE s \in [1..Cardinality(S) -> S] : \A x \in S : \E i \in DOMAIN s : s[i] = x

\* the data part of the reply to list()
ListReply(out) ==
    IF out = "ok"
    THEN LET names == SetToSeq(srvFolders)
         IN  [i \in 1..Len(names) |-> ListLine(names[i], listStyle)]
    ELSE <<ErrorLine>>

-----------------------------------------------------------------------------
(* String helpers used by the LIST parser *)

IsPrefixAt(s, sep, i) ==
    /\ i + Len(sep) - 1 <= Len(s)
    /\ \A j \in 1..Len(sep) : s[i + j - 1] = sep[j]

\* str.split(sep): the parts of s between the occurrences of sep, left to right
RECURSIVE SplitFrom(_, _, _, _)
SplitFrom(s, sep, i, cur) ==
    IF i > Len(s) THEN <<cur>>
    ELSE IF IsPrefixAt(s, sep, i)
         THEN <<cur>> \o SplitFrom(s, sep, i + Len(sep), <<>>)
         ELSE SplitFrom(s, sep, i + 1, Append(cur, s[i]))

Split(s, sep) == SplitFrom(s, sep, 1, <<>>)

\* str.strip(ch)
RECURSIVE LStrip(_, _)
LStrip(s, ch) ==
    IF s # <<>> /\ Head(s) = ch THEN LStrip(Tail(s), ch) ELSE s

RECURSIVE RStrip(_, _)
RStrip(s, ch) ==
    IF s # <<>> /\ s[Len(s)] = ch THEN RStrip(SubSeq(s, 1, Len(s) - 1), ch) ELSE s

Strip(s, ch) == RStrip(LStrip(s, ch), ch)

\* ensure_folders_exist, the loop over the LIST reply: the names it recognises
\* (a name is a sequence of tokens here; a folder name is one token)
ParseFolders(folders) ==
    LET parts(i) == Split(folders[i], <<QUOTE, SPACE, QUOTE>>)
        name(i) == Strip(parts(i)[Len(parts(i))], QUOTE)
    IN  {name(i) : i \in {j \in 1..Len(folders) : Len(parts(j)) > 1}}

\* folder not in existing
InExisting(folder, existing) == <<folder>> \in existing

-----------------------------------------------------------------------------
(* The connection handle *)

Callers == DOMAIN pc

ConnIds == 1..MaxConns

NoConn == [state |-> "NONE", sel |-> "", logouts |-> 0]

NumOpened == Cardinality({k \in ConnIds : conn[k].state # "NONE"})

\* imaplib: the connection states in which it accepts a command
LegalStates(cmd) ==
    CASE cmd \in {"list", "create", "select"} -> {"AUTH", "SELECTED"}
      [] cmd \in {"copy", "store", "expunge", "search", "fetch"} -> {"SELECTED"}
      [] cmd = "logout" -> {"NONAUTH", "AUTH", "SELECTED", "LOGOUT"}

\* the outcomes a call on self._imap can have; okPossible: the server is able
\* to carry the command out
CmdOutcomes(cmd, okPossible) ==
    IF imap = 0 THEN {"client_error"}
    ELSE IF conn[imap].state \notin LegalStates(cmd) THEN {"client_error"}
    ELSE (IF okPossible THEN {"ok"} ELSE {}) \cup {"no", "raise"}

\* an outcome that surfaces as an exception in the caller
Raises(out) == out \in {"raise", "client_error"}

\* connect(): "refused" = opening the transport raises, "badlogin" = login
\* raises, "ok"; past MaxConns connections the server refuses
ConnectOutcomes ==
    IF NumOpened < MaxConns THEN {"refused", "badlogin", "ok"} ELSE {"refused"}

\* connect(): self._imap after the call
ConnectImap(out) == IF out = "refused" THEN imap ELSE NumOpened + 1

\* connect(): the connections after the call
ConnectConn(out) ==
    IF out = "refused" THEN conn
    ELSE [conn EXCEPT ![NumOpened + 1] =
            [state |-> IF out = "ok" THEN "AUTH" ELSE "NONAUTH", sel |-> "",
             logouts |-> 0]]

\* the folder selected on the session's connection
Selected == IF imap = 0 THEN "" ELSE conn[imap].sel

\* what a caller keeps between calls: nothing is listed, nothing moved
NoHeld == [listing |-> <<>>, moves |-> <<>>]

\* no caller keeps a listing and none is inside a with-block
NoCallerState ==
    /\ held = [c \in DOMAIN pc |-> NoHeld]
    /\ within = [c \in DOMAIN pc |-> "out"]

NoArgs ==
    [message_id |-> 0, source_folder |-> "", target_folder |-> "",
     folder |-> "", limit |-> 0, category |-> ""]

NoLoc ==
    [listed |-> {}, existing |-> {}, idx |-> 0, nums |-> <<>>, found |-> <<>>,
     results |-> <<>>, moved |-> ""]

\* what is remembered of the operation that just ended: whether it was an
\* ensure_folders_exist() that returned True
Summary(c) ==
    IF last[c].op = "ensure_folders_exist" /\ ret[c] = "True"
    THEN "ensure_folders_exist: True" ELSE "other"

\* the value an operation returns when it cannot go on
FailValue(op) == IF op = "search_emails" THEN "[]" ELSE "False"

\* the operation ends with value v
Return(c, v) ==
    /\ pc' = [pc EXCEPT ![c] = "idle"]
    /\ ret' = [ret EXCEPT ![c] = v]

Logged(c, cmd, arg, out) ==
    log' = [log EXCEPT ![c] =
               Append(@, [cmd |-> cmd, arg |-> arg, out |-> out, sel |-> Selected])]

\* variant: the result of connect() is ignored and the operation goes on
Enter_IgnoresConnect(c, op, a, first) ==
    /\ pc[c] = "idle"
    /\ args' = [args EXCEPT ![c] = a]
    /\ loc' = [loc EXCEPT ![c] = NoLoc]
    /\ log' = [log EXCEPT ![c] = <<>>]
    /\ prev' = [prev EXCEPT ![c] = Summary(c)]
    /\ pc' = [pc EXCEPT ![c] = first]
    /\ ret' = [ret EXCEPT ![c] = "running"]
    /\ UNCHANGED <<triageVars, locking, within>>
    /\ UNCHANGED <<folder_mapping, srvFolders, listStyle, mailbox>>
    /\ \E out \in IF imap # 0 THEN {"none"} ELSE ConnectOutcomes :
       /\ imap' = IF out = "none" THEN imap ELSE ConnectImap(out)
       /\ conn' = IF out = "none" THEN conn ELSE ConnectConn(out)
       /\ last' = [last EXCEPT ![c] =
             [op |-> op, imap0 |-> imap, opened0 |-> NumOpened,
              connected |-> out]]

\* the first lines of ensure_folders_exist, move_email and search_emails:
\*     if not self._imap:
\*         if not self.connect(): return <failure value>
Enter(c, op, a, first) ==
    /\ pc[c] = "idle"
    /\ args' = [args EXCEPT ![c] = a]
    /\ loc' = [loc EXCEPT ![c] = NoLoc]
    /\ log' = [log EXCEPT ![c] = <<>>]
    /\ prev' = [prev EXCEPT ![c] = Summary(c)]
    /\ UNCHANGED <<triageVars, locking, within>>
    /\ UNCHANGED <<folder_mapping, srvFolders, listStyle, mailbox>>
    /\ IF imap # 0
       THEN /\ UNCHANGED <<imap, conn>>
            /\ last' = [last EXCEPT ![c] =
                  [op |-> op, imap0 |-> imap, opened0 |-> NumOpened,
                   connected |-> "none"]]
            /\ pc' = [pc EXCEPT ![c] = first]
            /\ ret' = [ret EXCEPT ![c] = "running"]
       ELSE \E out \in ConnectOutcomes :
            /\ imap' = ConnectImap(out)
            /\ conn' = ConnectConn(out)
            /\ last' = [last EXCEPT ![c] =
                  [op |-> op, imap0 |-> imap, opened0 |-> NumOpened,
                   connected |-> out]]
            /\ IF out = "ok"
               THEN /\ pc' = [pc EXCEPT ![c] = first]
                    /\ ret' = [ret EXCEPT ![c] = "running"]
               ELSE Return(c, FailValue(op))

\* connect()
Connect(c) ==
    /\ pc[c] = "idle"
    /\ \E out \in ConnectOutcomes :
       /\ imap' = ConnectImap(out)
       /\ conn' = ConnectConn(out)
       /\ last' = [last EXCEPT ![c] =
             [op |-> "connect", imap0 |-> imap, opened0 |-> NumOpened,
              connected |-> out]]
       /\ Return(c, IF out = "ok" THEN "True" ELSE "False")
    /\ args' = [args EXCEPT ![c] = NoArgs]
    /\ loc' = [loc EXCEPT ![c] = NoLoc]
    /\ log' = [log EXCEPT ![c] = <<>>]
    /\ prev' = [prev EXCEPT ![c] = Summary(c)]
    /\ UNCHANGED <<triageVars, locking, callerVars>>
    /\ UNCHANGED <<folder_mapping, srvFolders, listStyle, mailbox>>

\* variant: logout() without self._imap = None
Disconnect_KeepsHandle(c) ==
    /\ pc[c] = "idle"
    /\ IF imap # 0
       THEN \E out \in CmdOutcomes("logout", TRUE) \ {"no"} :
            /\ log' = [log EXCEPT ![c] = <<[cmd |-> "logout", arg |-> "", out |-> out,
                                             sel |-> Selected]>>]
            /\ conn' = [conn EXCEPT
                  ![imap].state = IF out = "ok" THEN "LOGOUT" ELSE @,
                  ![imap].sel = IF out = "ok" THEN "" ELSE @,
                  ![imap].logouts = IF @ < 2 THEN @ + 1 ELSE @]
       ELSE /\ log' = [log EXCEPT ![c] = <<>>]
            /\ UNCHANGED conn
    /\ last' = [last EXCEPT ![c] =
          [op |-> "disconnect", imap0 |-> imap, opened0 |-> NumOpened,
           connected |-> "none"]]
    /\ Return(c, "None")
    /\ args' = [args EXCEPT ![c] = NoArgs]
    /\ loc' = [loc EXCEPT ![c] = NoLoc]
    /\ prev' = [prev EXCEPT ![c] = Summary(c)]
    /\ UNCHANGED <<triageVars, locking, callerVars>>
    /\ UNCHANGED <<folder_mapping, imap, srvFolders, listStyle, mailbox>>

\* disconnect(): logout() inside try / except: pass, then self._imap = None
Disconnect(c) ==
    /\ pc[c] = "idle"
    /\ IF imap # 0
       THEN \E out \in CmdOutcomes("logout", TRUE) \ {"no"} :
            /\ log' = [log EXCEPT ![c] = <<[cmd |-> "logout", arg |-> "", out |-> out,
                                             sel |-> Selected]>>]
            /\ conn' = [conn EXCEPT
                  ![imap].state = IF out = "ok" THEN "LOGOUT" ELSE @,
                  ![imap].sel = IF out = "ok" THEN "" ELSE @,
                  ![imap].logouts = @ + 1]
            /\ imap' = 0
       ELSE /\ log' = [log EXCEPT ![c] = <<>>]
            /\ UNCHANGED <<imap, conn>>
    /\ last' = [last EXCEPT ![c] =
          [op |-> "disconnect", imap0 |-> imap, opened0 |-> NumOpened,
           connected |-> "none"]]
    /\ Return(c, "None")
    /\ args' = [args EXCEPT ![c] = NoArgs]
    /\ loc' = [loc EXCEPT ![c] = NoLoc]
    /\ prev' = [prev EXCEPT ![c] = Summary(c)]
    /\ UNCHANGED <<triageVars, locking, callerVars>>
    /\ UNCHANGED <<folder_mapping, srvFolders, listStyle, mailbox>>

\* get_folder_for_category(category); "KeyError" stands for the exception
GetFolder(c) ==
    /\ pc[c] = "idle"
    /\ \E category \in Categories \cup {"SPAM"} :
       /\ args' = [args EXCEPT ![c] = [NoArgs EXCEPT !.category = category]]
       /\ Return(c, get_folder_for_category(folder_mapping, category))
    /\ last' = [last EXCEPT ![c] =
          [op |-> "get_folder_for_category", imap0 |-> imap,
           opened0 |-> NumOpened, connected |-> "none"]]
    /\ loc' = [loc EXCEPT ![c] = NoLoc]
    /\ log' = [log EXCEPT ![c] = <<>>]
    /\ prev' = [prev EXCEPT ![c] = Summary(c)]
    /\ UNCHANGED <<triageVars, locking, callerVars>>
    /\ UNCHANGED <<folder_mapping, imap, conn, srvFolders, listStyle, mailbox>>

-----------------------------------------------------------------------------
(* ensure_folders_exist *)

EnsureEnter(c) ==
    /\ Enter(c, "ensure_folders_exist", NoArgs, "ens_list")
    /\ UNCHANGED held

\* _, folders = self._imap.list() and the loop that fills `existing`
EnsureList(c) ==
    /\ pc[c] = "ens_list"
    /\ \E out \in CmdOutcomes("list", TRUE) :
       /\ Logged(c, "list", "", out)
       /\ IF Raises(out)
          THEN /\ Return(c, "False")
               /\ UNCHANGED loc
          ELSE /\ loc' = [loc EXCEPT ![c].listed = srvFolders,
                                     ![c].existing = ParseFolders(ListReply(out)),
                                     ![c].idx = 1]
               /\ pc' = [pc EXCEPT ![c] = "ens_loop"]
               /\ UNCHANGED ret
    /\ UNCHANGED <<triageVars, locking, callerVars>>
    /\ UNCHANGED <<folder_mapping, imap, conn, srvFolders, listStyle, mailbox,
                   args, last, prev>>

\* one round of: for category, folder in self.folder_mapping.items()
EnsureLoop(c) ==
    /\ pc[c] = "ens_loop"
    /\ IF loc[c].idx > Len(folder_mapping)
       THEN /\ Return(c, "True")
            /\ UNCHANGED <<loc, log, srvFolders>>
       ELSE LET folder == folder_mapping[loc[c].idx][2]
            IN  IF InExisting(folder, loc[c].existing)
                THEN /\ loc' = [loc EXCEPT ![c].idx = @ + 1]
                     /\ UNCHANGED <<pc, ret, log, srvFolders>>
                ELSE \E out \in CmdOutcomes("create", ~Exists(folder)) :
                     /\ Logged(c, "create", folder, out)
                     /\ srvFolders' = IF out = "ok" THEN srvFolders \cup {folder}
                                      ELSE srvFolders
                     /\ IF Raises(out)
                        THEN /\ Return(c, "False")
                             /\ UNCHANGED loc
                        ELSE /\ loc' = [loc EXCEPT ![c].idx = @ + 1]
                             /\ UNCHANGED <<pc, ret>>
    /\ UNCHANGED <<triageVars, locking, callerVars>>
    /\ UNCHANGED <<folder_mapping, imap, conn, listStyle, mailbox, args, last, prev>>

-----------------------------------------------------------------------------
(* move_email *)

ValidId(f, id) == f # "" /\ id \in 1..Len(mailbox[f])

MoveEnter(c) ==
    /\ \E id \in 1..MaxMsgs, tgt \in MappingValues(folder_mapping) :
          Enter(c, "move_email",
                [NoArgs EXCEPT !.message_id = id, !.source_folder = "INBOX",
                               !.target_folder = tgt],
                "mv_select")
    /\ UNCHANGED held

\* a step of move_email that raised, or the step after it
MoveGoes(c, out, next) ==
    IF Raises(out) THEN Return(c, "False")
    ELSE IF next = "idle" THEN Return(c, "True")
    ELSE /\ pc' = [pc EXCEPT ![c] = next]
         /\ UNCHANGED ret

\* select(folder) on the connection: SELECTED on OK, AUTH on NO
SelectConn(folder, out) ==
    IF out = "ok"
    THEN [conn EXCEPT ![imap].state = "SELECTED", ![imap].sel = Canon(folder)]
    ELSE IF out = "no"
    THEN [conn EXCEPT ![imap].state = "AUTH", ![imap].sel = ""]
    ELSE conn

\* variant: the source folder is not selected before the copy
MoveSelect_Skipped(c) ==
    /\ pc[c] = "mv_select"
    /\ pc' = [pc EXCEPT ![c] = "mv_copy"]
    /\ UNCHANGED <<triageVars, locking, callerVars>>
    /\ UNCHANGED <<folder_mapping, imap, conn, srvFolders, listStyle, mailbox,
                   args, loc, log, ret, last, prev>>

\* self._imap.select(source_folder)
MoveSelect(c) ==
    /\ pc[c] = "mv_select"
    /\ \E out \in CmdOutcomes("select", Exists(args[c].source_folder)) :
       /\ Logged(c, "select", args[c].source_folder, out)
       /\ conn' = SelectConn(args[c].source_folder, out)
       /\ MoveGoes(c, out, "mv_copy")
    /\ UNCHANGED <<triageVars, locking, callerVars>>
    /\ UNCHANGED <<folder_mapping, imap, srvFolders, listStyle, mailbox,
                   args, loc, last, prev>>

\* self._imap.copy(message_id, target_folder)
MoveCopy(c) ==
    /\ pc[c] = "mv_copy"
    /\ LET id == args[c].message_id
           tgt == Canon(args[c].target_folder)
           can == /\ ValidId(Selected, id)
                  /\ Exists(tgt)
                  /\ Len(mailbox[tgt]) < MaxMsgs
       IN  \E out \in CmdOutcomes("copy", can) :
           /\ Logged(c, "copy", args[c].target_folder, out)
           /\ mailbox' = IF out = "ok"
                         THEN [mailbox EXCEPT ![tgt] = Append(@, mailbox[Selected][id])]
                         ELSE mailbox
           /\ loc' = IF out = "ok"
                     THEN [loc EXCEPT ![c].moved = mailbox[Selected][id].msg]
                     ELSE loc
           /\ MoveGoes(c, out, "mv_store")
    /\ UNCHANGED <<triageVars, locking, callerVars>>
    /\ UNCHANGED <<folder_mapping, imap, conn, srvFolders, listStyle,
                   args, last, prev>>

\* variant: a store that fails takes the copy out of the target folder again
MoveStore_RollsBack(c) ==
    /\ pc[c] = "mv_store"
    /\ LET id == args[c].message_id
           tgt == Canon(args[c].target_folder)
       IN  \E out \in CmdOutcomes("store", ValidId(Selected, id)) :
           /\ Logged(c, "store", "+FLAGS \\Deleted", out)
           /\ mailbox' = IF out = "ok"
                         THEN [mailbox EXCEPT ![Selected][id].deleted = TRUE]
                         ELSE IF mailbox[tgt] # <<>>
                         THEN [mailbox EXCEPT ![tgt] = SubSeq(@, 1, Len(@) - 1)]
                         ELSE mailbox
           /\ MoveGoes(c, out, "mv_expunge")
    /\ UNCHANGED <<triageVars, locking, callerVars>>
    /\ UNCHANGED <<folder_mapping, imap, conn, srvFolders, listStyle,
                   args, loc, last, prev>>

\* variant: the store flags every message of the selected folder
MoveStore_FlagsAll(c) ==
    /\ pc[c] = "mv_store"
    /\ LET id == args[c].message_id
       IN  \E out \in CmdOutcomes("store", ValidId(Selected, id)) :
           /\ Logged(c, "store", "+FLAGS \\Deleted", out)
           /\ mailbox' = IF out = "ok"
                         THEN [mailbox EXCEPT ![Selected] =
                                  [i \in 1..Len(@) |-> [@[i] EXCEPT !.deleted = TRUE]]]
                         ELSE mailbox
           /\ MoveGoes(c, out, "mv_expunge")
    /\ UNCHANGED <<triageVars, locking, callerVars>>
    /\ UNCHANGED <<folder_mapping, imap, conn, srvFolders, listStyle,
                   args, loc, last, prev>>

\* self._imap.store(message_id, '+FLAGS', '\\Deleted')
MoveStore(c) ==
    /\ pc[c] = "mv_store"
    /\ LET id == args[c].message_id
       IN  \E out \in CmdOutcomes("store", ValidId(Selected, id)) :
           /\ Logged(c, "store", "+FLAGS \\Deleted", out)
           /\ mailbox' = IF out = "ok"
                         THEN [mailbox EXCEPT ![Selected][id].deleted = TRUE]
                         ELSE mailbox
           /\ MoveGoes(c, out, "mv_expunge")
    /\ UNCHANGED <<triageVars, locking, callerVars>>
    /\ UNCHANGED <<folder_mapping, imap, conn, srvFolders, listStyle,
                   args, loc, last, prev>>

\* the messages of a folder that an expunge leaves
Expunged(msgs) == SelectSeq(msgs, LAMBDA m : ~m.deleted)

\* self._imap.expunge(), then return True
MoveExpunge(c) ==
    /\ pc[c] = "mv_expunge"
    /\ \E out \in CmdOutcomes("expunge", TRUE) :
       /\ Logged(c, "expunge", "", out)
       /\ mailbox' = IF out = "ok"
                     THEN [mailbox EXCEPT ![Selected] = Expunged(@)]
                     ELSE mailbox
       /\ MoveGoes(c, out, "idle")
    /\ UNCHANGED <<triageVars, locking, callerVars>>
    /\ UNCHANGED <<folder_mapping, imap, conn, srvFolders, listStyle,
                   args, loc, last, prev>>

-----------------------------------------------------------------------------
(* search_emails *)

\* search_emails(criteria="ALL", folder, limit) for a folder in `folders`
SearchCall(c, folders) ==
    /\ \E folder \in folders, limit \in 0..MaxLimit :
          Enter(c, "search_emails",
                [NoArgs EXCEPT !.folder = folder, !.limit = limit], "se_select")
    /\ UNCHANGED held

\* search_emails on the default folder
SearchEnter(c) == SearchCall(c, {"INBOX"})

\* search_emails on any folder of the server
SearchEnterAny(c) == SearchCall(c, srvFolders)

\* self._imap.select(folder)
SearchSelect(c) ==
    /\ pc[c] = "se_select"
    /\ \E out \in CmdOutcomes("select", Exists(args[c].folder)) :
       /\ Logged(c, "select", args[c].folder, out)
       /\ conn' = SelectConn(args[c].folder, out)
       /\ IF Raises(out) THEN Return(c, "[]")
          ELSE /\ pc' = [pc EXCEPT ![c] = "se_search"]
               /\ UNCHANGED ret
    /\ UNCHANGED <<triageVars, locking, callerVars>>
    /\ UNCHANGED <<folder_mapping, imap, srvFolders, listStyle, mailbox,
                   args, loc, last, prev>>

\* list[:limit] for limit >= 0
Take(s, n) == SubSeq(s, 1, IF n < Len(s) THEN n ELSE Len(s))

\* _, messages = self._imap.search(None, criteria); messages[0].split()[:limit]
\* a NO reply carries a text whose words are then taken for message numbers
\* (0 stands for such a word)
SearchSearch(c) ==
    /\ pc[c] = "se_search"
    /\ \E out \in CmdOutcomes("search", TRUE) :
       /\ Logged(c, "search", "ALL", out)
       /\ IF Raises(out)
          THEN /\ Return(c, "[]")
               /\ UNCHANGED loc
          ELSE /\ loc' = [loc EXCEPT
                    ![c].nums = Take(IF out = "ok"
                                     THEN [i \in 1..Len(mailbox[Selected]) |-> i]
                                     ELSE <<0>>, args[c].limit),
                    ![c].found = IF out = "ok" THEN mailbox[Selected] ELSE <<>>,
                    ![c].idx = 1]
               /\ pc' = [pc EXCEPT ![c] = "se_fetch"]
               /\ UNCHANGED ret
    /\ UNCHANGED <<triageVars, locking, callerVars>>
    /\ UNCHANGED <<folder_mapping, imap, conn, srvFolders, listStyle, mailbox,
                   args, last, prev>>

\* a part of a Subject header as decode_header returns it: a str when the
\* header has no encoded word, else bytes with the charset of the word
Chunk(text, kind) == [text |-> text, kind |-> kind]

\* the Subject header of the messages of the model
SubjectHeader(m) ==
    CASE m = "m1" -> [present |-> TRUE, chunks |-> <<Chunk("Hello", "str")>>]
      [] m = "m2" -> [present |-> TRUE,
                      chunks |-> <<Chunk("Re: ", "bytes"),
                                   Chunk("caf\\xc3\\xa9", "utf-8")>>]
      [] m = "m3" -> [present |-> FALSE, chunks |-> <<>>]
      [] OTHER -> [present |-> TRUE,
                   chunks |-> <<Chunk("caf\\xe9", "iso-8859-1")>>]

Messages == {"m1", "m2", "m3", "m4"}

\* the subject a message has: the texts of all the parts of its header
FullSubject(m) ==
    [i \in 1..Len(SubjectHeader(m).chunks) |-> SubjectHeader(m).chunks[i].text]

\* decode_header(message["subject"])[0][0], then .decode() if it is bytes:
\* raises on a message without Subject header (decode_header(None)) and on
\* bytes that are not UTF-8
SubjectRaises(m) ==
    \/ ~SubjectHeader(m).present
    \/ SubjectHeader(m).chunks[1].kind = "iso-8859-1"

\* the subject search_emails puts in the result: the first part only
DecodedSubject(m) == <<SubjectHeader(m).chunks[1].text>>

\* message["from"]
Sender(m) == <<"from", m>>

\* one round of: for num in ...: fetch(num, '(RFC822)'), decode, append;
\* anything but an OK reply with the message makes msg_data[0][1] raise
SearchFetch(c) ==
    /\ pc[c] = "se_fetch"
    /\ IF loc[c].idx > Len(loc[c].nums)
       THEN /\ Return(c, "list")
            /\ UNCHANGED <<loc, log>>
       ELSE LET num == loc[c].nums[loc[c].idx]
            IN  \E out \in CmdOutcomes("fetch", ValidId(Selected, num)) :
                /\ Logged(c, "fetch", "", out)
                /\ IF out = "ok" /\ ~SubjectRaises(mailbox[Selected][num].msg)
                   THEN /\ loc' = [loc EXCEPT
                             ![c].results = Append(@, [num |-> num,
                                  subject |-> DecodedSubject(mailbox[Selected][num].msg),
                                  sender |-> Sender(mailbox[Selected][num].msg)]),
                             ![c].idx = @ + 1]
                        /\ UNCHANGED <<pc, ret>>
                   ELSE /\ loc' = [loc EXCEPT ![c].results = <<>>]
                        /\ Return(c, "[]")
    /\ UNCHANGED <<triageVars, locking, callerVars>>
    /\ UNCHANGED <<folder_mapping, imap, conn, srvFolders, listStyle, mailbox,
                   args, last, prev>>

\* the server: a message arrives in the inbox
Deliver ==
    /\ Len(mailbox["INBOX"]) < MaxMsgs
    /\ \E m \in Messages :
       /\ \A i \in 1..Len(mailbox["INBOX"]) : mailbox["INBOX"][i].msg # m
       /\ mailbox' = [mailbox EXCEPT !["INBOX"] =
                         Append(@, [msg |-> m, deleted |-> FALSE])]
    /\ UNCHANGED <<triageVars, locking, callerVars>>
    /\ UNCHANGED <<folder_mapping, imap, conn, srvFolders, listStyle,
                   pc, args, loc, log, ret, last, prev>>

-----------------------------------------------------------------------------
(* The context manager *)

\* __enter__: self.connect(); return self
WithEnter(c) ==
    /\ pc[c] = "idle" /\ within[c] = "out"
    /\ \E out \in ConnectOutcomes :
       /\ imap' = ConnectImap(out)
       /\ conn' = ConnectConn(out)
       /\ last' = [last EXCEPT ![c] =
             [op |-> "__enter__", imap0 |-> imap, opened0 |-> NumOpened,
              connected |-> out]]
    /\ Return(c, "self")
    /\ within' = [within EXCEPT ![c] = "body"]
    /\ args' = [args EXCEPT ![c] = NoArgs]
    /\ loc' = [loc EXCEPT ![c] = NoLoc]
    /\ log' = [log EXCEPT ![c] = <<>>]
    /\ prev' = [prev EXCEPT ![c] = Summary(c)]
    /\ UNCHANGED <<triageVars, locking, held>>
    /\ UNCHANGED <<folder_mapping, srvFolders, listStyle, mailbox>>

\* a statement of the body of the with-block raises: the block is left
\* through the exception
BodyRaises(c) ==
    /\ pc[c] = "idle" /\ within[c] = "body"
    /\ within' = [within EXCEPT ![c] = "raised"]
    /\ UNCHANGED <<triageVars, locking, held>>
    /\ UNCHANGED <<folder_mapping, imap, conn, srvFolders, listStyle, mailbox,
                   pc, args, loc, log, ret, last, prev>>

\* variant: __exit__ disconnects only when the body ended without exception
WithExit_SkipsOnException(c) ==
    /\ pc[c] = "idle" /\ within[c] \in {"body", "raised"}
    /\ IF imap # 0 /\ within[c] = "body"
       THEN \E out \in CmdOutcomes("logout", TRUE) \ {"no"} :
            /\ log' = [log EXCEPT ![c] = <<[cmd |-> "logout", arg |-> "", out |-> out,
                                             sel |-> Selected]>>]
            /\ conn' = [conn EXCEPT
                  ![imap].state = IF out = "ok" THEN "LOGOUT" ELSE @,
                  ![imap].sel = IF out = "ok" THEN "" ELSE @,
                  ![imap].logouts = @ + 1]
            /\ imap' = 0
       ELSE /\ log' = [log EXCEPT ![c] = <<>>]
            /\ UNCHANGED <<imap, conn>>
    /\ last' = [last EXCEPT ![c] =
          [op |-> "__exit__", imap0 |-> imap, opened0 |-> NumOpened,
           connected |-> "none"]]
    /\ Return(c, IF within[c] = "raised" THEN "exception" ELSE "None")
    /\ within' = [within EXCEPT ![c] = "out"]
    /\ args' = [args EXCEPT ![c] = NoArgs]
    /\ loc' = [loc EXCEPT ![c] = NoLoc]
    /\ prev' = [prev EXCEPT ![c] = Summary(c)]
    /\ UNCHANGED <<triageVars, locking, held>>
    /\ UNCHANGED <<folder_mapping, srvFolders, listStyle, mailbox>>

\* __exit__(exc_type, exc_val, exc_tb): self.disconnect(); it returns None,
\* so an exception of the body goes on to the caller ("exception")
WithExit(c) ==
    /\ pc[c] = "idle" /\ within[c] \in {"body", "raised"}
    /\ IF imap # 0
       THEN \E out \in CmdOutcomes("logout", TRUE) \ {"no"} :
            /\ log' = [log EXCEPT ![c] = <<[cmd |-> "logout", arg |-> "", out |-> out,
                                             sel |-> Selected]>>]
            /\ conn' = [conn EXCEPT
                  ![imap].state = IF out = "ok" THEN "LOGOUT" ELSE @,
                  ![imap].sel = IF out = "ok" THEN "" ELSE @,
                  ![imap].logouts = @ + 1]
            /\ imap' = 0
       ELSE /\ log' = [log EXCEPT ![c] = <<>>]
            /\ UNCHANGED <<imap, conn>>
    /\ last' = [last EXCEPT ![c] =
          [op |-> "__exit__", imap0 |-> imap, opened0 |-> NumOpened,
           connected |-> "none"]]
    /\ Return(c, IF within[c] = "raised" THEN "exception" ELSE "None")
    /\ within' = [within EXCEPT ![c] = "out"]
    /\ args' = [args EXCEPT ![c] = NoArgs]
    /\ loc' = [loc EXCEPT ![c] = NoLoc]
    /\ prev' = [prev EXCEPT ![c] = Summary(c)]
    /\ UNCHANGED <<triageVars, locking, held>>
    /\ UNCHANGED <<folder_mapping, srvFolders, listStyle, mailbox>>

-----------------------------------------------------------------------------
(* The caller: handles kept from a listing and used in later moves *)

\* the message a handle of the kept listing was returned for
HeldMsg(c, h) ==
    LET e == CHOOSE e \in {held[c].listing[i] : i \in 1..Len(held[c].listing)} :
                 e.num = h
    IN  e.sender[2]

\* the handles of the kept listing
HeldNums(c) == {held[c].listing[i].num : i \in 1..Len(held[c].listing)}

\* recent_emails = folder_manager.search_emails(folder="INBOX", limit=5): the
\* caller keeps the tuples (id, subject, sender) the search returned
Keep(c) ==
    /\ pc[c] = "idle" /\ last[c].op = "search_emails" /\ ret[c] = "list"
    /\ held[c].listing = <<>> /\ loc[c].results # <<>>
    /\ held' = [held EXCEPT ![c] = [listing |-> loc[c].results, moves |-> <<>>]]
    /\ UNCHANGED <<triageVars, locking, within>>
    /\ UNCHANGED <<folder_mapping, imap, conn, srvFolders, listStyle, mailbox,
                   pc, args, loc, log, ret, last, prev>>

\* msg_id = selected_email[0]; folder_manager.move_email(msg_id, "INBOX",
\* target_folder): a move by a handle of the kept listing, the handles being
\* used in ascending order
MoveHeld(c) ==
    /\ \E h \in HeldNums(c), tgt \in MappingValues(folder_mapping) :
          /\ \A k \in 1..Len(held[c].moves) : held[c].moves[k] < h
          /\ held' = [held EXCEPT ![c].moves = Append(@, h)]
          /\ Enter(c, "move_email",
                   [NoArgs EXCEPT !.message_id = h, !.source_folder = "INBOX",
                                  !.target_folder = tgt],
                   "mv_select")

-----------------------------------------------------------------------------
(* The rule-based classifier.  A text is a sequence of tokens (words, word  *)
(* fragments, blanks); `k in text` is containment of a contiguous run.      *)

\* str.lower() on the tokens of the model ("\\xdf" is the letter sharp s,
\* which lower() leaves as it is)
LowerTok(t) ==
    CASE t = "Weekly" -> "weekly"
      [] t = "OTP" -> "otp"
      [] t = "URGENT" -> "urgent"
      [] t = "Action" -> "action"
      [] t \in {"Boss", "BOSS"} -> "boss"
      [] t \in {"Example.com", "EXAMPLE.COM"} -> "example.com"
      [] t \in {"Hans", "HANS"} -> "hans"
      [] t = "Wei\\xdf" -> "wei\\xdf"
      [] t = "WEISS" -> "weiss"
      [] OTHER -> t

\* str.upper() on the tokens of the model (upper() turns sharp s into SS)
UpperTok(t) ==
    CASE t \in {"otp", "OTP"} -> "OTP"
      [] t \in {"urgent", "URGENT"} -> "URGENT"
      [] t \in {"boss", "Boss"} -> "BOSS"
      [] t \in {"example.com", "Example.com"} -> "EXAMPLE.COM"
      [] t \in {"hans", "Hans"} -> "HANS"
      [] t \in {"wei\\xdf", "Wei\\xdf", "weiss"} -> "WEISS"
      [] OTHER -> t

Lower(text) == [i \in 1..Len(text) |-> LowerTok(text[i])]

\* k in text
Contains(text, k) ==
    \E i \in 0..(Len(text) - Len(k)) : SubSeq(text, i + 1, i + Len(k)) = k

\* contains_any(text, keywords)
contains_any(text, keywords) ==
    \E j \in 1..Len(keywords) : Contains(text, keywords[j])

newsletter_keywords ==
    << <<"unsubscribe">>, <<"weekly", SPACE, "update">>,
       <<"latest", SPACE, "issue">>, <<"newsletter">> >>

otp_keywords ==
    << <<"otp">>, <<"one", SPACE, "time", SPACE, "password">>,
       <<"verification", SPACE, "code">> >>

receipt_keywords ==
    << <<"receipt">>, <<"invoice">>, <<"order", SPACE, "receipt">>,
       <<"payment", SPACE, "receipt">> >>

promotional_keywords ==
    << <<"sale">>, <<"offer">>, <<"discount">>, <<"buy", SPACE, "now">>,
       <<"limited", SPACE, "time">>, <<"promo">>, <<"promo", "tional">> >>

urgency_keywords ==
    << <<"urgent">>, <<"asap">>, <<"immediately">>, <<"important">>,
       <<"action", SPACE, "required">>, <<"deadline">>,
       <<"respond", SPACE, "immediately">> >>

Result(category, action, justification) ==
    [category |-> category, action |-> action, justification |-> justification]

\* TriageAgent.__init__: [c.lower() for c in (known_contacts or [])]
InitContacts(arg) == [i \in 1..Len(arg) |-> Lower(arg[i])]

\* any(k in sender for k in self.known_contacts)
is_known_contact(sender, contacts) ==
    \E j \in 1..Len(contacts) : Contains(sender, contacts[j])

\* the first three rules in a short form, for the variants below: the result
\* of the newsletter, OTP/receipt or promotional rule, or the empty result
KeywordRules(e) ==
    LET any(keywords) == \/ contains_any(Lower(e.subject), keywords)
                         \/ contains_any(Lower(e.body), keywords)
    IN  IF any(newsletter_keywords)
        THEN Result("NEWSLETTER", "MOVE_TO_FOLDER: Newsletters", "")
        ELSE IF any(otp_keywords \o receipt_keywords)
        THEN Result("OTP_RECEIPT", "MOVE_TO_FOLDER: Receipts", "")
        ELSE IF any(promotional_keywords)
        THEN Result("PROMOTIONAL", "MOVE_TO_FOLDER: Promotions", "")
        ELSE Result("", "", "")

\* has_urgency = contains_any(subject + " " + body, urgency keywords)
UrgencyInText(e) ==
    contains_any(Lower(e.subject) \o <<SPACE>> \o Lower(e.body), urgency_keywords)

\* variant: a known contact is URGENT whatever the text says
rule_based_analyze_KnownIsUrgent(e, contacts) ==
    IF KeywordRules(e) # Result("", "", "") THEN KeywordRules(e)
    ELSE IF is_known_contact(Lower(e.sender), contacts)
    THEN Result("URGENT", "FLAG_PRIORITY: High", "")
    ELSE IF UrgencyInText(e) THEN Result("IMPORTANT", "FLAG_PRIORITY: High", "")
    ELSE Result("OTHER", "MOVE_TO_FOLDER: Inbox", "")

\* variant: the final return is missing, the function falls off its end
rule_based_analyze_NoDefault(e, contacts) ==
    IF KeywordRules(e) # Result("", "", "") THEN KeywordRules(e)
    ELSE IF is_known_contact(Lower(e.sender), contacts) /\ UrgencyInText(e)
    THEN Result("URGENT", "FLAG_PRIORITY: High", "")
    ELSE IF is_known_contact(Lower(e.sender), contacts) \/ UrgencyInText(e)
    THEN Result("IMPORTANT", "FLAG_PRIORITY: High", "")
    ELSE Result("", "", "")

\* variant: urgent language from an unknown sender is not flagged
rule_based_analyze_UnknownUrgencyIgnored(e, contacts) ==
    IF KeywordRules(e) # Result("", "", "") THEN KeywordRules(e)
    ELSE IF is_known_contact(Lower(e.sender), contacts) /\ UrgencyInText(e)
    THEN Result("URGENT", "FLAG_PRIORITY: High", "")
    ELSE IF is_known_contact(Lower(e.sender), contacts)
    THEN Result("IMPORTANT", "FLAG_PRIORITY: High", "")
    ELSE Result("OTHER", "MOVE_TO_FOLDER: Inbox", "")

\* variant: the urgency rule is tried before the keyword rules
rule_based_analyze_UrgencyFirst(e, contacts) ==
    LET subject == Lower(e.subject)
        body == Lower(e.body)
        any(keywords) == contains_any(subject, keywords) \/ contains_any(body, keywords)
        known == is_known_contact(Lower(e.sender), contacts)
        has_urgency == contains_any(subject \o <<SPACE>> \o body, urgency_keywords)
    IN  IF known /\ has_urgency THEN Result("URGENT", "FLAG_PRIORITY: High", "")
        ELSE IF any(newsletter_keywords)
        THEN Result("NEWSLETTER", "MOVE_TO_FOLDER: Newsletters", "")
        ELSE IF any(otp_keywords \o receipt_keywords)
        THEN Result("OTP_RECEIPT", "MOVE_TO_FOLDER: Receipts", "")
        ELSE IF any(promotional_keywords)
        THEN Result("PROMOTIONAL", "MOVE_TO_FOLDER: Promotions", "")
        ELSE IF known \/ has_urgency THEN Result("IMPORTANT", "FLAG_PRIORITY: High", "")
        ELSE Result("OTHER", "MOVE_TO_FOLDER: Inbox", "")

\* TriageAgent._rule_based_analyze
rule_based_analyze(e, contacts) ==
    LET subject == Lower(e.subject)
        body == Lower(e.body)
        sender == Lower(e.sender)
        known == is_known_contact(sender, contacts)
        has_urgency == contains_any(subject \o <<SPACE>> \o body, urgency_keywords)
    IN  IF \/ contains_any(subject, newsletter_keywords)
           \/ contains_any(body, newsletter_keywords)
        THEN Result("NEWSLETTER", "MOVE_TO_FOLDER: Newsletters",
                 "Message contains newsletter indicators like 'unsubscribe' or 'weekly update'.")
        ELSE IF \/ contains_any(subject, otp_keywords \o receipt_keywords)
                \/ contains_any(body, otp_keywords \o receipt_keywords)
        THEN Result("OTP_RECEIPT", "MOVE_TO_FOLDER: Receipts",
                 "Subject or body indicates a receipt or verification/OTP (e.g., 'receipt', 'invoice', or 'otp').")
        ELSE IF \/ contains_any(subject, promotional_keywords)
                \/ contains_any(body, promotional_keywords)
        THEN Result("PROMOTIONAL", "MOVE_TO_FOLDER: Promotions",
                 "Contains promotional language such as 'sale', 'offer', or 'discount'.")
        ELSE IF known /\ has_urgency
        THEN Result("URGENT", "FLAG_PRIORITY: High",
                 "From a known contact and contains high-urgency language such as 'urgent' or 'ASAP'.")
        ELSE IF known
        THEN Result("IMPORTANT", "FLAG_PRIORITY: High",
                 "From a known contact; marked important to ensure a timely response.")
        ELSE IF has_urgency
        THEN Result("IMPORTANT", "FLAG_PRIORITY: High",
                 "Contains urgent language; flagged for prompt attention.")
        ELSE Result("OTHER", "MOVE_TO_FOLDER: Inbox",
                 "No matching criteria for special categories; leave in Inbox for manual review.")

NoResult == Result("", "", "")
NoEmail == [subject |-> <<>>, body |-> <<>>, sender |-> <<>>]

-----------------------------------------------------------------------------
(* The optional CrewAI delegate, the pydantic models and TriageTask *)

\* a value under a key of a JSON object: a string, null, or no such key
JStr(s) == [type |-> "str", v |-> s]
JNull == [type |-> "null", v |-> ""]
JAbsent == [type |-> "absent", v |-> ""]

\* what self.crewai.run_prompt(prompt) and json.loads make of one call:
\* "raise" = the call raises, "text" = the response is not JSON,
\* "array" = JSON that is not an object, "object" = the object in obj
Response(kind, category, action, justification) ==
    [kind |-> kind,
     obj |-> [category |-> category, action |-> action,
              justification |-> justification]]

NoResponse == Response("none", JAbsent, JAbsent, JAbsent)

DelegateResponses ==
    {Response(k, JAbsent, JAbsent, JAbsent) : k \in {"raise", "text", "array"}}
    \cup {Response("object", c, a, j) :
             c \in {JStr("URGENT"), JStr("OTHER"), JStr("SPAM"), JAbsent},
             a \in {JStr("FLAG_PRIORITY: High"), JStr("MOVE_TO_FOLDER: Archive"),
                    JStr("DELETE"), JNull},
             j \in {JStr("because"), JAbsent}}

\* EmailTriageResult(**parsed) validates: category is one of the six
\* literals, action and justification are strings
ValidResult(obj) ==
    /\ obj.category.type = "str" /\ obj.category.v \in Categories
    /\ obj.action.type = "str"
    /\ obj.justification.type = "str"

\* _analyze_with_crewai returns a result (it raises otherwise)
DelegateReturns(resp) == resp.kind = "object" /\ ValidResult(resp.obj)

NoError == [type |-> "", msg |-> <<>>]

Outcome(result, err) == [result |-> result, error |-> err]

\* variant: the exception of the CrewAI call is not caught
analyze_Propagates(e, contacts, available, resp) ==
    IF available /\ DelegateReturns(resp)
    THEN Outcome(Result(resp.obj.category.v, resp.obj.action.v,
                        resp.obj.justification.v), NoError)
    ELSE IF available
    THEN Outcome(NoResult, [type |-> "Exception", msg |-> <<"CrewAI">>])
    ELSE Outcome(rule_based_analyze(e, contacts), NoError)

\* TriageAgent.analyze: if self.crewai: try: return self._analyze_with_crewai
\* except Exception: print; return self._rule_based_analyze(email)
analyze(e, contacts, available, resp) ==
    IF available /\ DelegateReturns(resp)
    THEN Outcome(Result(resp.obj.category.v, resp.obj.action.v,
                        resp.obj.justification.v), NoError)
    ELSE Outcome(rule_based_analyze(e, contacts), NoError)

\* the responses the delegate can give to one analyze()
Responses == IF crewai THEN DelegateResponses ELSE {NoResponse}

\* a call of TriageAgent.analyze(email)
Analyze ==
    /\ ~analyzed
    /\ \E resp \in Responses :
       /\ delegate' = resp
       /\ triage' = analyze(email, known_contacts, crewai, resp).result
       /\ error' = analyze(email, known_contacts, crewai, resp).error
    /\ analyzed' = TRUE
    /\ UNCHANGED <<email, known_contacts, crewai, email_dict>>
    /\ UNCHANGED sessionVars

\* a value under a key of email_dict: a str, None, an int, or no such key
PyStr(text) == [type |-> "str", v |-> text]
PyNone == [type |-> "None", v |-> <<>>]
PyInt == [type |-> "int", v |-> <<"5">>]
PyAbsent == [type |-> "absent", v |-> <<>>]

NoDict == [subject |-> PyAbsent, body |-> PyAbsent, sender |-> PyAbsent]

\* Email(**email_dict) validates: the three fields are there and are str;
\* coerce: the installed pydantic turns an int into a str (1.x) or refuses
\* it (2.x)
ValidEmail(d, coerce) ==
    \A k \in {"subject", "body", "sender"} :
        d[k].type = "str" \/ (d[k].type = "int" /\ coerce)

\* the Email that Email(**email_dict) builds
MakeEmail(d) == [subject |-> d.subject.v, body |-> d.body.v, sender |-> d.sender.v]

InvalidEmailInput ==
    [type |-> "ValueError", msg |-> <<"Invalid email input", ": ", "ValidationError">>]

\* variant: the fields are not validated before the classifier runs
Run_Unvalidated ==
    /\ ~analyzed /\ error = NoError
    /\ email' = MakeEmail(email_dict)
    /\ analyzed' = TRUE
    /\ \E resp \in Responses :
       /\ delegate' = resp
       /\ triage' = analyze(MakeEmail(email_dict), known_contacts, crewai, resp).result
       /\ error' = analyze(MakeEmail(email_dict), known_contacts, crewai, resp).error
    /\ UNCHANGED <<known_contacts, crewai, email_dict>>
    /\ UNCHANGED sessionVars

\* TriageTask.run(email_dict): try: email = Email(**email_dict)
\* except ValidationError as e: raise ValueError(f"Invalid email input: {e}")
\* result = self.agent.analyze(email); return result
Run ==
    /\ ~analyzed /\ error = NoError
    /\ \E coerce \in BOOLEAN :
       IF ValidEmail(email_dict, coerce)
       THEN /\ email' = MakeEmail(email_dict)
            /\ analyzed' = TRUE
            /\ \E resp \in Responses :
               /\ delegate' = resp
               /\ triage' = analyze(MakeEmail(email_dict), known_contacts,
                                    crewai, resp).result
               /\ error' = analyze(MakeEmail(email_dict), known_contacts,
                                   crewai, resp).error
       ELSE /\ error' = InvalidEmailInput
            /\ UNCHANGED <<email, triage, delegate, analyzed>>
    /\ UNCHANGED <<known_contacts, crewai, email_dict>>
    /\ UNCHANGED sessionVars

(* The inputs of the classifier *)

MaxSubject == 3    \* tokens in a subject
MaxBody == 1       \* tokens in a body

SubjectTokens == {"Weekly", SPACE, "update", "OTP", "sale", "URGENT", "Action"}
BodyTokens == {"unsubscribe", "receipt", "discount", "asap", "required", "hi"}

Texts(tokens, n) == UNION {[1..k -> tokens] : k \in 0..n}

BossAddr == <<"Boss", "@", "Example.com">>

Senders == {<<>>, BossAddr, <<"friend", "@", "example.com">>}

\* the known_contacts arguments given to TriageAgent; <<>> is None / []
ContactArgs == {<<>>, <<BossAddr>>, << <<"@", "example.com">> >>}

-----------------------------------------------------------------------------
(* Specifications *)

NoLast == [op |-> "none", imap0 |-> 0, opened0 |-> 0, connected |-> "none"]
NoPrev == "other"

Message(m) == [msg |-> m, deleted |-> FALSE]

\* the state after EmailFolderManager(...) for a constructor argument in M,
\* a server holding the folders in F0 and one caller
InitWith(M, F0, Styles, inbox) ==
    /\ \E arg \in M : folder_mapping = InitMapping(arg)
    /\ imap = 0
    /\ conn = [k \in ConnIds |-> NoConn]
    /\ srvFolders = F0
    /\ listStyle \in Styles
    /\ mailbox = [f \in MailboxNames |-> IF f = "INBOX" THEN inbox ELSE <<>>]
    /\ pc = [c \in {1} |-> "idle"]
    /\ args = [c \in {1} |-> NoArgs]
    /\ loc = [c \in {1} |-> NoLoc]
    /\ log = [c \in {1} |-> <<>>]
    /\ ret = [c \in {1} |-> "None"]
    /\ last = [c \in {1} |-> NoLast]
    /\ prev = [c \in {1} |-> NoPrev]
    /\ locking = FALSE
    /\ NoCallerState
    /\ email = NoEmail
    /\ known_contacts = <<>>
    /\ triage = NoResult
    /\ crewai = FALSE
    /\ delegate = NoResponse
    /\ email_dict = NoDict
    /\ error = NoError
    /\ analyzed = FALSE

\* folder provisioning and lookups
InitFolders ==
    InitWith({custom_mapping, inbox_mapping}, {"INBOX"}, {"quoted", "atom"}, <<>>)

NextFolders ==
    \/ \E c \in Callers : Connect(c)
    \/ \E c \in Callers : Disconnect(c)
    \/ \E c \in Callers : GetFolder(c)
    \/ \E c \in Callers : EnsureEnter(c)
    \/ \E c \in Callers : EnsureList(c)
    \/ \E c \in Callers : EnsureLoop(c)

SpecFolders == InitFolders /\ [][NextFolders]_vars

\* moving and listing messages
InitMove ==
    InitWith({urgent_mapping}, {"INBOX", "Urgent"}, {"quoted"},
             <<Message("m1"), Message("m2")>>)

NextMove ==
    \/ \E c \in Callers : Connect(c)
    \/ \E c \in Callers : Disconnect(c)
    \/ \E c \in Callers : MoveEnter(c)
    \/ \E c \in Callers : MoveSelect(c)
    \/ \E c \in Callers : MoveCopy(c)
    \/ \E c \in Callers : MoveStore(c)
    \/ \E c \in Callers : MoveExpunge(c)

SpecMove == InitMove /\ [][NextMove]_vars

NextSearch ==
    \/ \E c \in Callers : SearchEnter(c)
    \/ \E c \in Callers : SearchSelect(c)
    \/ \E c \in Callers : SearchSearch(c)
    \/ \E c \in Callers : SearchFetch(c)

\* every operation of the folder manager
Init == InitWith({archive_mapping}, {"INBOX"}, {"quoted"}, <<Message("m1")>>)

Next ==
    \/ \E c \in Callers : Connect(c)
    \/ \E c \in Callers : Disconnect(c)
    \/ \E c \in Callers : GetFolder(c)
    \/ \E c \in Callers : EnsureEnter(c)
    \/ \E c \in Callers : EnsureList(c)
    \/ \E c \in Callers : EnsureLoop(c)
    \/ \E c \in Callers : MoveEnter(c)
    \/ \E c \in Callers : MoveSelect(c)
    \/ \E c \in Callers : MoveCopy(c)
    \/ \E c \in Callers : MoveStore(c)
    \/ \E c \in Callers : MoveExpunge(c)
    \/ NextSearch

Spec == Init /\ [][Next]_vars

\* lookups in the folder mapping, for every constructor argument
InitLookup == InitWith(MappingArgs, {"INBOX"}, {"quoted"}, <<>>)

NextLookup ==
    \/ \E c \in Callers : Connect(c)
    \/ \E c \in Callers : Disconnect(c)
    \/ \E c \in Callers : GetFolder(c)

SpecLookup == InitLookup /\ [][NextLookup]_vars

\* lookups in a custom mapping that has no OTHER entry
InitPartial == InitWith({partial_mapping}, {"INBOX"}, {"quoted"}, <<>>)

NextPartial ==
    \/ \E c \in Callers : Connect(c)
    \/ \E c \in Callers : Disconnect(c)
    \/ \E c \in Callers : GetFolder(c)

SpecPartial == InitPartial /\ [][NextPartial]_vars

\* the classifier on every input of the bounded sets
InitTriage ==
    /\ folder_mapping = DEFAULT_FOLDER_MAPPING
    /\ imap = 0
    /\ conn = [k \in ConnIds |-> NoConn]
    /\ srvFolders = {"INBOX"}
    /\ listStyle = "quoted"
    /\ mailbox = [f \in MailboxNames |-> <<>>]
    /\ pc = [c \in {1} |-> "idle"]
    /\ args = [c \in {1} |-> NoArgs]
    /\ loc = [c \in {1} |-> NoLoc]
    /\ log = [c \in {1} |-> <<>>]
    /\ ret = [c \in {1} |-> "None"]
    /\ last = [c \in {1} |-> NoLast]
    /\ prev = [c \in {1} |-> NoPrev]
    /\ locking = FALSE
    /\ NoCallerState
    /\ email \in [subject : Texts(SubjectTokens, MaxSubject),
                  body : Texts(BodyTokens, MaxBody), sender : Senders]
    /\ \E arg \in ContactArgs : known_contacts = InitContacts(arg)
    /\ triage = NoResult
    /\ crewai = FALSE
    /\ delegate = NoResponse
    /\ email_dict = NoDict
    /\ error = NoError
    /\ analyzed = FALSE

NextTriage == Analyze

SpecTriage == InitTriage /\ [][NextTriage]_vars

\* the inboxes a search may find: different messages in any order
Inboxes ==
    {q \in UNION {[1..n -> Messages] : n \in 0..MaxMsgs} :
        \A i, j \in 1..Len(q) : q[i] = q[j] => i = j}

\* listing messages while mail arrives
InitSearch ==
    \E q \in Inboxes :
        InitWith({archive_mapping}, {"INBOX"}, {"quoted"},
                 [i \in 1..Len(q) |-> Message(q[i])])

NextSearching ==
    \/ \E c \in Callers : Connect(c)
    \/ \E c \in Callers : Disconnect(c)
    \/ \E c \in Callers : SearchEnter(c)
    \/ \E c \in Callers : SearchSelect(c)
    \/ \E c \in Callers : SearchSearch(c)
    \/ \E c \in Callers : SearchFetch(c)
    \/ Deliver

SpecSearch == InitSearch /\ [][NextSearching]_vars

\* the variables of the triage module when no classification takes part
NoTriage ==
    /\ email = NoEmail
    /\ known_contacts = <<>>
    /\ triage = NoResult
    /\ crewai = FALSE
    /\ delegate = NoResponse
    /\ email_dict = NoDict
    /\ error = NoError
    /\ analyzed = FALSE

\* caller c may begin an operation: with the lock, only when no other
\* caller is inside one
Free(c) == locking => \A o \in Callers \ {c} : pc[o] = "idle"

\* caller c has not called the session yet
Fresh(c) == last[c].op = "none"

\* the connection of a session that earlier calls left connected, with
\* folder sel selected ("" when none is)
OpenConn(sel) ==
    [state |-> IF sel = "" THEN "AUTH" ELSE "SELECTED", sel |-> sel, logouts |-> 0]

\* two callers share one EmailFolderManager, with or without a lock, and
\* each makes one call; the session is not connected yet, or earlier calls
\* left it connected
InitShared ==
    /\ folder_mapping = archive_mapping
    /\ \/ /\ imap = 0
          /\ conn = [k \in ConnIds |-> NoConn]
       \/ /\ imap = 1
          /\ \E sel \in {"", "INBOX", "Archive"} :
                conn = [k \in ConnIds |-> IF k = 1 THEN OpenConn(sel) ELSE NoConn]
    /\ srvFolders = {"INBOX", "Archive"}
    /\ listStyle = "quoted"
    /\ mailbox = [f \in MailboxNames |->
                    IF f = "INBOX" THEN <<Message("m1")>>
                    ELSE IF f = "Archive" THEN <<Message("m2")>> ELSE <<>>]
    /\ pc = [c \in {1, 2} |-> "idle"]
    /\ args = [c \in {1, 2} |-> NoArgs]
    /\ loc = [c \in {1, 2} |-> NoLoc]
    /\ log = [c \in {1, 2} |-> <<>>]
    /\ ret = [c \in {1, 2} |-> "None"]
    /\ last = [c \in {1, 2} |-> NoLast]
    /\ prev = [c \in {1, 2} |-> NoPrev]
    /\ locking \in BOOLEAN
    /\ NoCallerState
    /\ NoTriage

NextShared ==
    \/ \E c \in Callers : Fresh(c) /\ Free(c) /\ MoveEnter(c)
    \/ \E c \in Callers : MoveSelect(c)
    \/ \E c \in Callers : MoveCopy(c)
    \/ \E c \in Callers : MoveStore(c)
    \/ \E c \in Callers : MoveExpunge(c)
    \/ \E c \in Callers : Fresh(c) /\ Free(c) /\ SearchEnterAny(c)
    \/ \E c \in Callers : SearchSelect(c)
    \/ \E c \in Callers : SearchSearch(c)
    \/ \E c \in Callers : SearchFetch(c)

SpecShared == InitShared /\ [][NextShared]_vars

\* the inbox a call may find: one or two of the messages m1, m2, each of
\* them possibly flagged \Deleted by an earlier move that did not expunge
FoundInboxes ==
    {q \in UNION {[1..n -> [msg : {"m1", "m2"}, deleted : BOOLEAN]] : n \in 1..2} :
        \A i, j \in 1..Len(q) : i # j => q[i].msg # q[j].msg}

\* one call of move_email on a session that is not connected yet, or that
\* earlier calls left connected; the target folder is empty or holds m2
InitOneMove ==
    /\ folder_mapping = urgent_mapping
    /\ \/ /\ imap = 0
          /\ conn = [k \in ConnIds |-> NoConn]
       \/ /\ imap = 1
          /\ \E sel \in {"", "INBOX", "Urgent"} :
                conn = [k \in ConnIds |-> IF k = 1 THEN OpenConn(sel) ELSE NoConn]
    /\ srvFolders = {"INBOX", "Urgent"}
    /\ listStyle = "quoted"
    /\ \E inbox \in FoundInboxes, urgent \in {<<>>, <<Message("m2")>>} :
          mailbox = [f \in MailboxNames |->
                        IF f = "INBOX" THEN inbox
                        ELSE IF f = "Urgent" THEN urgent ELSE <<>>]
    /\ pc = [c \in {1} |-> "idle"]
    /\ args = [c \in {1} |-> NoArgs]
    /\ loc = [c \in {1} |-> NoLoc]
    /\ log = [c \in {1} |-> <<>>]
    /\ ret = [c \in {1} |-> "None"]
    /\ last = [c \in {1} |-> NoLast]
    /\ prev = [c \in {1} |-> NoPrev]
    /\ locking = FALSE
    /\ NoCallerState
    /\ NoTriage

NextOneMove ==
    \/ \E c \in Callers : Fresh(c) /\ MoveEnter(c)
    \/ \E c \in Callers : MoveSelect(c)
    \/ \E c \in Callers : MoveCopy(c)
    \/ \E c \in Callers : MoveStore(c)
    \/ \E c \in Callers : MoveExpunge(c)

SpecOneMove == InitOneMove /\ [][NextOneMove]_vars

\* folder provisioning for a mapping with one folder under two categories
InitDup == InitWith({shared_mapping}, {"INBOX"}, {"quoted", "atom"}, <<>>)

NextDup ==
    \/ \E c \in Callers : Connect(c)
    \/ \E c \in Callers : Disconnect(c)
    \/ \E c \in Callers : EnsureEnter(c)
    \/ \E c \in Callers : EnsureList(c)
    \/ \E c \in Callers : EnsureLoop(c)

SpecDup == InitDup /\ [][NextDup]_vars

\* a listing of the inbox, then moves by the handles it returned, all in
\* one session; the inbox holds three messages
InitHandles ==
    /\ folder_mapping = urgent_mapping
    /\ imap = 0
    /\ conn = [k \in ConnIds |-> NoConn]
    /\ srvFolders = {"INBOX", "Urgent", "Archive"}
    /\ listStyle = "quoted"
    /\ mailbox = [f \in MailboxNames |->
                    IF f = "INBOX"
                    THEN <<Message("m1"), Message("m2"), Message("m4")>>
                    ELSE <<>>]
    /\ pc = [c \in {1} |-> "idle"]
    /\ args = [c \in {1} |-> NoArgs]
    /\ loc = [c \in {1} |-> NoLoc]
    /\ log = [c \in {1} |-> <<>>]
    /\ ret = [c \in {1} |-> "None"]
    /\ last = [c \in {1} |-> NoLast]
    /\ prev = [c \in {1} |-> NoPrev]
    /\ locking = FALSE
    /\ NoCallerState
    /\ NoTriage

NextHandles ==
    \/ \E c \in Callers : held[c].listing = <<>> /\ SearchEnter(c)
    \/ \E c \in Callers : SearchSelect(c)
    \/ \E c \in Callers : SearchSearch(c)
    \/ \E c \in Callers : SearchFetch(c)
    \/ \E c \in Callers : Keep(c)
    \/ \E c \in Callers : MoveHeld(c)
    \/ \E c \in Callers : MoveSelect(c)
    \/ \E c \in Callers : MoveCopy(c)
    \/ \E c \in Callers : MoveStore(c)
    \/ \E c \in Callers : MoveExpunge(c)

SpecHandles == InitHandles /\ [][NextHandles]_vars

\* the manager used in with-blocks; the calls of the body are connect,
\* disconnect and ensure_folders_exist, and none follows an exception
InBlock(c) == within[c] # "raised"

NextWith ==
    \/ \E c \in Callers : WithEnter(c)
    \/ \E c \in Callers : BodyRaises(c)
    \/ \E c \in Callers : WithExit(c)
    \/ \E c \in Callers : InBlock(c) /\ Connect(c)
    \/ \E c \in Callers : InBlock(c) /\ Disconnect(c)
    \/ \E c \in Callers : InBlock(c) /\ EnsureEnter(c)
    \/ \E c \in Callers : EnsureList(c)
    \/ \E c \in Callers : EnsureLoop(c)

SpecWith == Init /\ [][NextWith]_vars

\* the variables of the folder manager when no session takes part
NoSession ==
    /\ folder_mapping = DEFAULT_FOLDER_MAPPING
    /\ imap = 0
    /\ conn = [k \in ConnIds |-> NoConn]
    /\ srvFolders = {"INBOX"}
    /\ listStyle = "quoted"
    /\ mailbox = [f \in MailboxNames |-> <<>>]
    /\ pc = [c \in {1} |-> "idle"]
    /\ args = [c \in {1} |-> NoArgs]
    /\ loc = [c \in {1} |-> NoLoc]
    /\ log = [c \in {1} |-> <<>>]
    /\ ret = [c \in {1} |-> "None"]
    /\ last = [c \in {1} |-> NoLast]
    /\ prev = [c \in {1} |-> NoPrev]
    /\ locking = FALSE
    /\ NoCallerState

\* TriageAgent.analyze with and without the CrewAI module
InitDelegate ==
    /\ NoSession
    /\ email \in [subject : Texts({"OTP", "URGENT"}, MaxSubject),
                  body : Texts({"hi"}, MaxBody),
                  sender : {<<>>, BossAddr}]
    /\ \E arg \in {<<>>, <<BossAddr>>} : known_contacts = InitContacts(arg)
    /\ triage = NoResult
    /\ crewai \in BOOLEAN
    /\ delegate = NoResponse
    /\ email_dict = NoDict
    /\ error = NoError
    /\ analyzed = FALSE

NextDelegate == Analyze

SpecDelegate == InitDelegate /\ [][NextDelegate]_vars

\* the values a caller puts under a key of the dict given to TriageTask.run
DictValues(tokens, n) ==
    {PyStr(t) : t \in Texts(tokens, n)} \cup {PyNone, PyInt, PyAbsent}

\* TriageTask.run on well-formed and malformed dicts
InitTask ==
    /\ NoSession
    /\ email = NoEmail
    /\ \E arg \in {<<>>, <<BossAddr>>} : known_contacts = InitContacts(arg)
    /\ triage = NoResult
    /\ crewai \in BOOLEAN
    /\ delegate = NoResponse
    /\ email_dict \in [subject : DictValues({"OTP", "URGENT"}, MaxSubject),
                       body : DictValues({"hi"}, MaxBody),
                       sender : {PyStr(<<>>), PyStr(BossAddr), PyNone, PyAbsent}]
    /\ error = NoError
    /\ analyzed = FALSE

NextTask == Run

SpecTask == InitTask /\ [][NextTask]_vars

HansWeiss == <<"Hans", SPACE, "Wei\\xdf">>

\* the known_contacts arguments of the classifications compared under a
\* change of letter case
CaseContactArgs == {<<>>, <<BossAddr>>, << <<"Wei\\xdf">> >>}

\* the classifier on texts that have upper-case and lower-case spellings
InitCase ==
    /\ NoSession
    /\ email \in [subject : Texts({"URGENT", "hi"}, MaxSubject),
                  body : Texts({"OTP"}, MaxBody),
                  sender : {<<>>, BossAddr, HansWeiss}]
    /\ \E arg \in CaseContactArgs : known_contacts = InitContacts(arg)
    /\ triage = NoResult
    /\ crewai = FALSE
    /\ delegate = NoResponse
    /\ email_dict = NoDict
    /\ error = NoError
    /\ analyzed = FALSE

NextCase == Analyze

SpecCase == InitCase /\ [][NextCase]_vars

\* load_contacts: [str(e).strip().lower() for e in data if e] for the list
\* `data` of the contacts file; "if e" drops the empty string only
load_contacts(data) ==
    LET kept == SelectSeq(data, LAMBDA e : e # <<>>)
    IN  [i \in 1..Len(kept) |-> Lower(Strip(kept[i], SPACE))]

\* the lists a contacts file may hold: none, an address, an empty string, a
\* blank string, an address after a blank string
ContactFiles ==
    {<<>>, <<BossAddr>>, << <<>> >>, << <<SPACE>> >>, << <<SPACE>>, BossAddr >>}

\* TriageTask(known_contacts=load_contacts()), as main.py builds it
InitBlank ==
    /\ NoSession
    /\ email \in [subject : Texts({"URGENT", "hi"}, MaxSubject),
                  body : Texts({"OTP"}, MaxBody),
                  sender : Senders]
    /\ \E data \in ContactFiles : known_contacts = InitContacts(load_contacts(data))
    /\ triage = NoResult
    /\ crewai = FALSE
    /\ delegate = NoResponse
    /\ email_dict = NoDict
    /\ error = NoError
    /\ analyzed = FALSE

NextBlank == Analyze

SpecBlank == InitBlank /\ [][NextBlank]_vars

-----------------------------------------------------------------------------
(* Properties *)

\* the calls of the running / last operation that went out to the server
Issued(c) == SelectSeq(log[c], LAMBDA e : e.out # "client_error")

CmdNames(entries) == [i \in 1..Len(entries) |-> entries[i].cmd]

IsPrefix(s, t) == Len(s) <= Len(t) /\ s = SubSeq(t, 1, Len(s))

Finished(c, op) == pc[c] = "idle" /\ last[c].op = op

MoveProtocol == <<"select", "copy", "store", "expunge">>

\* C1: move_email issues select, copy, store(+FLAGS \Deleted), expunge in
\* that order, each at most once, and a step that failed (an exception or a
\* status other than OK) is the last one issued.
C1_MoveSequencing ==
    \A c \in Callers :
        last[c].op = "move_email" =>
            /\ IsPrefix(CmdNames(Issued(c)), MoveProtocol)
            /\ \A k \in 1..Len(Issued(c)) :
                   Issued(c)[k].out # "ok" => Len(Issued(c)) = k

\* C2: move_email returns True only if select, copy, store and expunge all
\* completed successfully, and returns False when one of them failed.
C2_MoveResult ==
    \A c \in Callers :
        Finished(c, "move_email") /\ last[c].connected \in {"none", "ok"} =>
            (ret[c] = "True" <=>
                /\ CmdNames(log[c]) = MoveProtocol
                /\ \A k \in 1..Len(log[c]) : log[c][k].out = "ok")

\* C3: a connect() that fails on a session without a connection, in opening
\* the transport or in login, returns False and retains no session handle;
\* it opens at most one connection.
C3_ConnectFailure ==
    \A c \in Callers :
        last[c].imap0 = 0 /\ last[c].connected \in {"refused", "badlogin"} =>
            /\ pc[c] = "idle"
            /\ ret[c] = (IF last[c].op = "connect" THEN "False"
                         ELSE FailValue(last[c].op))
            /\ NumOpened <= last[c].opened0 + 1
            /\ imap = 0

\* the folder names for which the running / last operation issued a create
Creates(c) == {log[c][i].arg : i \in {j \in 1..Len(log[c]) : log[c][j].cmd = "create"}}

NoException(c) == \A i \in 1..Len(log[c]) : ~Raises(log[c][i].out)

\* C4: an ensure_folders_exist() that directly follows an ensure_folders_exist()
\* which returned True, and in which no command raises, issues no create and
\* returns True (the server's folders change only through these two calls).
C4_SecondCallCreatesNothing ==
    \A c \in Callers :
        /\ Finished(c, "ensure_folders_exist")
        /\ prev[c] = "ensure_folders_exist: True"
        /\ NoException(c)
        => Creates(c) = {} /\ ret[c] = "True"

\* C5: an ensure_folders_exist() that runs to its end issues a create for
\* exactly the mapping values that the server did not list and that are not
\* the inbox under a case-insensitive comparison.
C5_CreatesExactlyMissing ==
    \A c \in Callers :
        Finished(c, "ensure_folders_exist") /\ ret[c] = "True" =>
            Creates(c) = {f \in MappingValues(folder_mapping) :
                             f \notin loc[c].listed /\ Upper(f) # "INBOX"}

\* C6: the first create that fails (an exception or a status other than OK)
\* is the last command of ensure_folders_exist(), which then returns False;
\* the folders it created before stay on the server.
C6_StopAtFirstCreateFailure ==
    \A c \in Callers :
        last[c].op = "ensure_folders_exist" =>
            \A k \in 1..Len(log[c]) :
                /\ log[c][k].cmd = "create" /\ log[c][k].out # "ok"
                      => Len(log[c]) = k /\ pc[c] = "idle" /\ ret[c] = "False"
                /\ log[c][k].cmd = "create" /\ log[c][k].out = "ok"
                      => log[c][k].arg \in srvFolders

SessionOps == {"ensure_folders_exist", "search_emails", "move_email"}

\* C7: ensure_folders_exist, search_emails and move_email perform connect()
\* first exactly when the session has no handle; when that connect fails they
\* return their failure value without a single call on the handle;
\* get_folder_for_category and disconnect never open a connection.
C7_ConnectOnDemand ==
    \A c \in Callers :
        /\ last[c].op \in SessionOps =>
              /\ last[c].imap0 = 0 <=> last[c].connected # "none"
              /\ last[c].connected \in {"refused", "badlogin"} =>
                    /\ pc[c] = "idle"
                    /\ ret[c] = FailValue(last[c].op)
                    /\ log[c] = <<>>
              /\ last[c].imap0 = 0 /\ log[c] # <<>> =>
                    NumOpened = last[c].opened0 + 1
        /\ last[c].op \in {"get_folder_for_category", "disconnect"} =>
              /\ last[c].connected = "none"
              /\ NumOpened = last[c].opened0

\* a search_emails() on a session without a handle whose connect was refused
C7_Witness ==
    \E c \in Callers :
        /\ Finished(c, "search_emails")
        /\ last[c].imap0 = 0
        /\ last[c].connected = "refused"
        /\ ret[c] = "[]"

\* C8: disconnect() returns normally and leaves the session without a handle,
\* whatever logout did; without a handle it calls nothing; no connection gets
\* more than one logout.
C8_DisconnectIdempotent ==
    /\ \A c \in Callers :
          last[c].op = "disconnect" =>
              /\ pc[c] = "idle"
              /\ ret[c] = "None"
              /\ imap = 0
              /\ last[c].imap0 = 0 => log[c] = <<>>
              /\ last[c].imap0 # 0 => CmdNames(log[c]) = <<"logout">>
    /\ \A k \in ConnIds : conn[k].logouts <= 1

\* a disconnect() on a session that was connected and is already disconnected
C8_Witness ==
    \E c \in Callers :
        /\ Finished(c, "disconnect")
        /\ last[c].imap0 = 0
        /\ \E k \in ConnIds : conn[k].logouts = 1

\* C9: with an OTHER entry in the mapping, get_folder_for_category returns the
\* folder of the category's entry, or the folder of the OTHER entry when the
\* category has none, and leaves the session's handle as it was.
C9_MappingDefault ==
    \A c \in Callers :
        Finished(c, "get_folder_for_category")
        /\ "OTHER" \in MappingKeys(folder_mapping) =>
            LET key == IF args[c].category \in MappingKeys(folder_mapping)
                       THEN args[c].category ELSE "OTHER"
            IN  /\ \E i \in 1..Len(folder_mapping) :
                       folder_mapping[i] = <<key, ret[c]>>
                /\ imap = last[c].imap0
                /\ NumOpened = last[c].opened0

\* the lookup of test_folder_mapping that falls back to OTHER
C9_Witness ==
    \E c \in Callers :
        /\ Finished(c, "get_folder_for_category")
        /\ folder_mapping = custom_mapping
        /\ args[c].category = "PROMOTIONAL"
        /\ ret[c] = "General"

HasKeyword(keywords) ==
    \/ contains_any(Lower(email.subject), keywords)
    \/ contains_any(Lower(email.body), keywords)

\* C10: the rules are tried in the order newsletter, OTP/receipt, promotional,
\* urgency/known sender, default, and the first rule that matches decides.
C10_PriorityOrder ==
    triage # NoResult =>
        LET N == HasKeyword(newsletter_keywords)
            O == HasKeyword(otp_keywords \o receipt_keywords)
            P == HasKeyword(promotional_keywords)
        IN  /\ N => triage.category = "NEWSLETTER"
            /\ ~N /\ O => triage.category = "OTP_RECEIPT"
            /\ ~N /\ ~O /\ P => triage.category = "PROMOTIONAL"
            /\ triage.category \in {"URGENT", "IMPORTANT", "OTHER"} =>
                  ~N /\ ~O /\ ~P

\* a newsletter with urgent language from a known contact
C10_Witness ==
    /\ triage.category = "NEWSLETTER"
    /\ HasKeyword(newsletter_keywords)
    /\ HasKeyword(urgency_keywords)
    /\ HasKeyword(promotional_keywords)
    /\ is_known_contact(Lower(email.sender), known_contacts)

\* the run of the classifier used the local rules
RuleBased == analyzed /\ delegate = NoResponse /\ error = NoError

\* none of the newsletter, OTP/receipt and promotional keywords is in the
\* subject or in the body
NoKeywordRule ==
    /\ ~HasKeyword(newsletter_keywords)
    /\ ~HasKeyword(otp_keywords \o receipt_keywords)
    /\ ~HasKeyword(promotional_keywords)

KnownSender == is_known_contact(Lower(email.sender), known_contacts)

\* the urgency rule for a message without keyword of the first three rules,
\* given whether the message counts as having urgent language
UrgencyRule(urgent) ==
    RuleBased /\ NoKeywordRule =>
        /\ KnownSender /\ urgent => triage.category = "URGENT"
        /\ KnownSender /\ ~urgent => triage.category = "IMPORTANT"
        /\ ~KnownSender /\ urgent => triage.category = "IMPORTANT"
        /\ KnownSender \/ urgent => triage.action = "FLAG_PRIORITY: High"
        /\ triage.category = "URGENT" =>
              get_folder_for_category(DEFAULT_FOLDER_MAPPING, triage.category)
                  = "Urgent"

\* C11 as stated: without newsletter, OTP/receipt or promotional keyword a
\* message is URGENT if the sender is known and the subject or the body
\* contains an urgency keyword, IMPORTANT if the sender is known and neither
\* contains one, IMPORTANT if the sender is unknown and one of them contains
\* one; the action is "FLAG_PRIORITY: High" and URGENT maps to "Urgent".
C11_SubjectOrBody == UrgencyRule(HasKeyword(urgency_keywords))

\* C11 amended: the same with the urgency keyword looked for in the text
\* subject + " " + body, so that a keyword may begin in the subject and end
\* in the body.
C11_KnownContactSensitivity == UrgencyRule(UrgencyInText(email))

\* "Action" / "required" from a known contact: URGENT by a keyword that
\* neither the subject nor the body contains
C11_Witness ==
    /\ RuleBased /\ NoKeywordRule /\ KnownSender
    /\ triage.category = "URGENT"
    /\ triage.action = "FLAG_PRIORITY: High"
    /\ ~HasKeyword(urgency_keywords)

\* C12: every classification, of empty strings too and for every contact
\* list, ends without an error in a result with one of the six categories.
C12_Total ==
    analyzed => error = NoError /\ triage.category \in Categories

\* the empty message with an empty contact list has been classified
C12_Witness ==
    /\ analyzed /\ email = NoEmail /\ known_contacts = <<>>
    /\ triage.category \in Categories

\* C13: the local rules return OTHER with "MOVE_TO_FOLDER: Inbox" exactly
\* when no keyword of the four sets matches (the first three in the subject
\* or in the body, urgency in the text of both) and the sender is not a
\* known contact; the empty message with no contacts is OTHER.
C13_DefaultRule ==
    RuleBased =>
        /\ (triage.category = "OTHER" /\ triage.action = "MOVE_TO_FOLDER: Inbox")
               <=> (NoKeywordRule /\ ~UrgencyInText(email) /\ ~KnownSender)
        /\ triage.category = "OTHER" => triage.action = "MOVE_TO_FOLDER: Inbox"
        /\ email = NoEmail /\ known_contacts = <<>> => triage.category = "OTHER"

\* a message of ordinary words from a sender who is not among the contacts
C13_Witness ==
    /\ RuleBased /\ known_contacts # <<>> /\ ~KnownSender
    /\ email.body = <<"hi">> /\ email.sender # <<>>
    /\ triage = Result("OTHER", "MOVE_TO_FOLDER: Inbox",
                        "No matching criteria for special categories; leave in Inbox for manual review.")

\* C14: with the CrewAI module present, an analyze() whose delegate call
\* fails (the call raises, the response is not JSON, the JSON is not an
\* object or breaks the EmailTriageResult schema) returns what the local
\* rules give for the message and raises nothing.
C14_DelegateFallback ==
    analyzed /\ crewai /\ ~DelegateReturns(delegate) =>
        /\ error = NoError
        /\ triage = rule_based_analyze(email, known_contacts)

\* the delegate answered with a category outside the six and the message
\* was classified by the OTP rule
C14_Witness ==
    /\ analyzed /\ crewai
    /\ delegate.kind = "object" /\ delegate.obj.category = JStr("SPAM")
    /\ triage.category = "OTP_RECEIPT"
    /\ error = NoError

\* TriageTask.run has returned or raised
Ran == analyzed \/ error # NoError

InvalidInputRaised ==
    /\ error.type = "ValueError"
    /\ IsPrefix(<<"Invalid email input">>, error.msg)
    /\ ~analyzed
    /\ triage = NoResult

\* C15 as stated: run() on a dict in which one of subject, body, sender is
\* missing or is not a string raises ValueError "Invalid email input..."
\* without invoking analyze; on three strings it raises nothing.
C15_RejectsNonStrings ==
    Ran =>
        /\ (\E k \in {"subject", "body", "sender"} : email_dict[k].type # "str")
              => InvalidInputRaised
        /\ (\A k \in {"subject", "body", "sender"} : email_dict[k].type = "str")
              => error = NoError /\ analyzed

\* C15 amended: the same for a dict in which one of the fields is missing
\* or is None.
C15_Validation ==
    Ran =>
        /\ (\E k \in {"subject", "body", "sender"} :
                email_dict[k].type \in {"absent", "None"})
              => InvalidInputRaised
        /\ (\A k \in {"subject", "body", "sender"} : email_dict[k].type = "str")
              => error = NoError /\ analyzed

\* a dict without body has been refused
C15_Witness ==
    /\ email_dict.body = PyAbsent
    /\ email_dict.subject.type = "str" /\ email_dict.sender.type = "str"
    /\ InvalidInputRaised

MoveActions ==
    {"MOVE_TO_FOLDER: Newsletters", "MOVE_TO_FOLDER: Receipts",
     "MOVE_TO_FOLDER: Promotions", "MOVE_TO_FOLDER: Inbox",
     "MOVE_TO_FOLDER: Archive"}

\* C16: the action of every result of analyze() is "FLAG_PRIORITY: High" or
\* "MOVE_TO_FOLDER: <folder>", whether the local rules or the delegate gave
\* it; from the local rules it is "FLAG_PRIORITY: High" exactly for URGENT
\* and IMPORTANT.
C16_ActionForm ==
    analyzed /\ error = NoError =>
        /\ triage.action \in {"FLAG_PRIORITY: High"} \cup MoveActions
        /\ (~crewai \/ ~DelegateReturns(delegate)) =>
              (triage.action = "FLAG_PRIORITY: High"
                  <=> triage.category \in {"URGENT", "IMPORTANT"})

\* the list search_emails returned
Returned(c) == IF ret[c] = "list" THEN loc[c].results ELSE <<>>

AllOk(c) == \A k \in 1..Len(log[c]) : log[c][k].out = "ok"

Min(a, b) == IF a < b THEN a ELSE b

\* the handles of the first n messages of a search result
Handles(found, n) ==
    [i \in 1..Min(n, Len(found)) |->
        [num |-> i, subject |-> FullSubject(found[i].msg),
         sender |-> Sender(found[i].msg)]]

\* C17: search_emails selects the folder and queries the server in every
\* call; when select, search and every fetch succeed it returns the first
\* min(limit, n) ids of the search result in the server's order, each with
\* the subject and the sender of its message; when a step fails it returns
\* the empty list; never more than limit handles.
C17_SearchResult ==
    \A c \in Callers :
        Finished(c, "search_emails") /\ last[c].connected \in {"none", "ok"} =>
            /\ log[c] # <<>>
            /\ log[c][1].cmd = "select" /\ log[c][1].arg = args[c].folder
            /\ Len(Returned(c)) <= args[c].limit
            /\ AllOk(c) =>
                  /\ IsPrefix(<<"select", "search">>, CmdNames(log[c]))
                  /\ Returned(c) = Handles(loc[c].found, args[c].limit)
            /\ ~AllOk(c) => Returned(c) = <<>>

\* the copy, store and expunge commands of a move_email that went out
MoveCommands(c) ==
    {k \in 1..Len(log[c]) :
        /\ log[c][k].cmd \in {"copy", "store", "expunge"}
        /\ log[c][k].out # "client_error"}

\* C18: when the callers of a shared session run every whole operation
\* under one lock, each copy, store and expunge of move_email goes out while
\* source_folder is the selected folder.  (Without the lock a state is
\* reachable in which one does not: C18_Witness.)
C18_LockedMoveOnSource ==
    locking =>
        \A c \in Callers :
            last[c].op = "move_email" =>
                \A k \in MoveCommands(c) :
                    log[c][k].sel = Canon(args[c].source_folder)

\* without the lock: after a move_email selected its source folder, another
\* caller's search_emails selected a different folder, and the copy of the
\* move went out and was carried out in that folder
C18_Witness ==
    /\ ~locking
    /\ \E c \in Callers :
          /\ last[c].op = "move_email"
          /\ \E k \in MoveCommands(c) :
                /\ log[c][k].cmd = "copy" /\ log[c][k].out = "ok"
                /\ log[c][1].cmd = "select" /\ log[c][1].out = "ok"
                /\ log[c][k].sel # Canon(args[c].source_folder)
                /\ log[c][k].sel # ""

\* message m is in folder f; flagged: with the deleted flag
InFolder(f, m) == \E i \in 1..Len(mailbox[f]) : mailbox[f][i].msg = m

FlaggedIn(f, m) ==
    \E i \in 1..Len(mailbox[f]) : mailbox[f][i].msg = m /\ mailbox[f][i].deleted

\* the copy of the running / last move_email was carried out
CopyDone(c) ==
    /\ last[c].op = "move_email"
    /\ Len(log[c]) >= 2
    /\ log[c][1].cmd = "select" /\ log[c][1].out = "ok"
    /\ log[c][2].cmd = "copy" /\ log[c][2].out = "ok"

\* no command of the move acted on the target folder after the copy
TargetUntouched(c) ==
    /\ IsPrefix(CmdNames(log[c]), MoveProtocol)
    /\ \A k \in 3..Len(log[c]) :
           log[c][k].out = "client_error"
              \/ log[c][k].sel # Canon(args[c].target_folder)

\* C19: move_email does not roll a completed copy back.  When it returns
\* False after a copy that succeeded and a store that failed, the message is
\* in the source and in the target folder; when the copy and the store
\* succeeded and the expunge failed, the message is in the target and is
\* still in the source, flagged as deleted; in both cases no command of the
\* move acted on the target folder after the copy.
C19_NoRollback ==
    \A c \in Callers :
        Finished(c, "move_email") /\ CopyDone(c) =>
            LET m == loc[c].moved
                src == Canon(args[c].source_folder)
                tgt == Canon(args[c].target_folder)
                failed(k) == Len(log[c]) >= k /\ log[c][k].out # "ok"
            IN  /\ failed(3) /\ ret[c] = "False" =>
                      /\ InFolder(src, m) /\ InFolder(tgt, m)
                      /\ TargetUntouched(c)
                /\ ~failed(3) /\ failed(4) =>
                      /\ InFolder(tgt, m) /\ FlaggedIn(src, m)
                      /\ TargetUntouched(c)

\* a move whose store raised after the copy: False, the message in both
\* folders
C19_Witness ==
    \E c \in Callers :
        /\ Finished(c, "move_email") /\ CopyDone(c)
        /\ Len(log[c]) = 3 /\ log[c][3].cmd = "store" /\ log[c][3].out = "raise"
        /\ ret[c] = "False"
        /\ InFolder("INBOX", loc[c].moved)
        /\ InFolder(Canon(args[c].target_folder), loc[c].moved)

\* the spellings of a token that differ from it in letter case only
CaseClass(t) == {t, UpperTok(t), LowerTok(t)}

\* the texts got from a text by changing the letter case of characters
CaseChanges(text) ==
    {v \in [1..Len(text) -> UNION {CaseClass(text[i]) : i \in 1..Len(text)}] :
        \A i \in 1..Len(text) : v[i] \in CaseClass(text[i])}

\* the same for the entries of a contact list
ContactChanges(arg) ==
    {v \in [1..Len(arg) -> UNION {CaseChanges(arg[i]) : i \in 1..Len(arg)}] :
        \A i \in 1..Len(arg) : v[i] \in CaseChanges(arg[i])}

\* C20: a change of the letter case of characters of the subject, the body,
\* the sender or the entries of the known-contact list leaves the category,
\* the action and the justification of the rule-based result as they were.
C20_CaseInsensitive ==
    RuleBased =>
        \A arg \in CaseContactArgs :
            InitContacts(arg) = known_contacts =>
                \A s \in CaseChanges(email.subject), b \in CaseChanges(email.body),
                   f \in CaseChanges(email.sender), a \in ContactChanges(arg) :
                    rule_based_analyze([subject |-> s, body |-> b, sender |-> f],
                                       InitContacts(a)) = triage

\* message m is in a folder of the server
AnyFolder(m) == \E f \in MailboxNames : InFolder(f, m)

\* C21: no message is lost by a move.  When move_email has returned, every
\* message of the account is in a folder (the message moved is in the source
\* or in the target folder), and a store or an expunge of the move was
\* carried out only after its copy was carried out.
C21_NoMessageLost ==
    \A c \in Callers :
        Finished(c, "move_email") =>
            /\ \A m \in {"m1", "m2"} : AnyFolder(m)
            /\ \A k \in 1..Len(log[c]) :
                   log[c][k].cmd \in {"store", "expunge"} /\ log[c][k].out = "ok"
                      => log[c][2].cmd = "copy" /\ log[c][2].out = "ok"

\* the folders the running / last ensure_folders_exist reported as created:
\* st.success follows every create that did not raise
ReportedCreated(c) ==
    {log[c][i].arg : i \in {j \in 1..Len(log[c]) :
                               log[c][j].cmd = "create" /\ ~Raises(log[c][j].out)}}

\* the folders the running / last ensure_folders_exist did create
Created(c) ==
    {log[c][i].arg : i \in {j \in 1..Len(log[c]) :
                               log[c][j].cmd = "create" /\ log[c][j].out = "ok"}}

\* C24: when ensure_folders_exist() returns True, every folder that is a
\* value of the folder mapping exists on the server, and every folder it
\* reported as created was created by it.
C24_TrueMeansFoldersExist ==
    \A c \in Callers :
        Finished(c, "ensure_folders_exist") /\ ret[c] = "True" =>
            /\ \A f \in MappingValues(folder_mapping) : Exists(f)
            /\ ReportedCreated(c) \subseteq Created(c)

\* connection k was opened and no logout was sent on it
OpenConnection(k) ==
    conn[k].state \notin {"NONE", "LOGOUT"} /\ conn[k].logouts = 0

\* C25: the session holds at most one open connection: every connection
\* that was opened and not logged out is the session's current handle.
C25_OneOpenConnection ==
    \A k \in ConnIds : OpenConnection(k) => k = imap

\* the positions of the create commands of the running / last operation
CreateCommands(c) == {k \in 1..Len(log[c]) : log[c][k].cmd = "create"}

\* C26: one call of ensure_folders_exist() issues at most one create per
\* folder name; when it returns True it has issued one create for each
\* mapped folder that was missing, also for one mapped by two categories.
C26_OneCreatePerFolder ==
    \A c \in Callers :
        last[c].op = "ensure_folders_exist" =>
            /\ \A i, j \in CreateCommands(c) :
                   log[c][i].arg = log[c][j].arg => i = j
            /\ Finished(c, "ensure_folders_exist") /\ ret[c] = "True" =>
                  \A f \in MappingValues(folder_mapping) \ loc[c].listed :
                      Cardinality({k \in CreateCommands(c) : log[c][k].arg = f}) = 1

\* C27: get_folder_for_category never raises: it returns the folder of the
\* category's entry for every category that is a key of the mapping, also
\* when the mapping has no OTHER entry, and never ends in a KeyError.
C27_LookupNeverRaises ==
    \A c \in Callers :
        Finished(c, "get_folder_for_category") =>
            /\ ret[c] # "KeyError"
            /\ args[c].category \in MappingKeys(folder_mapping)
                  => ret[c] = DictGet(folder_mapping, args[c].category)

\* the folder X named in an action "MOVE_TO_FOLDER: X"
ActionFolder(action) ==
    CASE action = "MOVE_TO_FOLDER: Newsletters" -> "Newsletters"
      [] action = "MOVE_TO_FOLDER: Receipts" -> "Receipts"
      [] action = "MOVE_TO_FOLDER: Promotions" -> "Promotions"
      [] action = "MOVE_TO_FOLDER: Inbox" -> "Inbox"
      [] action = "MOVE_TO_FOLDER: Archive" -> "Archive"
      [] OTHER -> ""

\* C28: when the action of a rule-based result is "MOVE_TO_FOLDER: X",
\* get_folder_for_category gives X for the category of the result under the
\* default folder mapping.
C28_ActionAgreesWithMapping ==
    RuleBased /\ triage.action \in MoveActions =>
        get_folder_for_category(DEFAULT_FOLDER_MAPPING, triage.category)
            = ActionFolder(triage.action)

\* the lower-cased sender contains an entry of the contact list that is not
\* the empty string
ContainsContact ==
    \E j \in 1..Len(known_contacts) :
        /\ known_contacts[j] # <<>>
        /\ Contains(Lower(email.sender), known_contacts[j])

\* C29: a sender is a known contact only if it contains a non-empty entry of
\* the contact list: a message no keyword rule fires on, from a sender that
\* contains none, is IMPORTANT when it has urgency language and OTHER when
\* it has none.
C29_EmptyEntryMatchesNothing ==
    RuleBased /\ NoKeywordRule /\ ~ContainsContact =>
        triage.category = (IF UrgencyInText(email) THEN "IMPORTANT" ELSE "OTHER")

\* the message that message_id of the running move_email identifies in the
\* source folder
HandleMsg(c) ==
    LET src == Canon(args[c].source_folder)
    IN  IF ValidId(src, args[c].message_id)
        THEN mailbox[src][args[c].message_id].msg ELSE "none"

\* caller c is inside move_email
Moving(c) == pc[c] \in {"mv_select", "mv_copy", "mv_store", "mv_expunge"}

\* the step with which a move_email returns True after each of its four
\* commands was answered OK
MoveSucceeds(c) ==
    /\ Moving(c) /\ pc'[c] = "idle" /\ ret'[c] = "True"
    /\ \A k \in 1..Len(log'[c]) : log'[c][k].out = "ok"

\* the folders other than the source and the target of the move stay as
\* they are
OthersKept(c) ==
    \A f \in MailboxNames \ {Canon(args[c].source_folder),
                             Canon(args[c].target_folder)} :
        mailbox'[f] = mailbox[f]

\* C23 as stated: the step with which move_email returns True leaves every
\* message of the source folder other than the one identified by h in the
\* source folder, also one that carried the deleted flag before, and changes
\* no folder other than source and target.
C23_OnlyHandleRemoved ==
    [][\A c \in Callers :
          MoveSucceeds(c) =>
              /\ \A m \in Messages :
                     InFolder(Canon(args[c].source_folder), m) /\ m # HandleMsg(c)
                        => InFolder(Canon(args[c].source_folder), m)'
              /\ OthersKept(c)]_vars

\* C23, amended: every step of move_email leaves in the source folder every
\* message other than the one identified by h that does not carry the
\* deleted flag (the expunge removes all that carry it, also from before
\* the call), flags no message other than that of h, and changes no folder
\* other than source and target.
C23_FrameOfMove ==
    [][\A c \in Callers :
          Moving(c) =>
              LET src == Canon(args[c].source_folder)
              IN  /\ \A m \in Messages :
                         /\ InFolder(src, m) /\ ~FlaggedIn(src, m) /\ m # HandleMsg(c)
                               => InFolder(src, m)' /\ ~FlaggedIn(src, m)'
                  /\ OthersKept(c)]_vars

\* a move of which every command was carried out: the message is in the
\* target folder and no longer in the source folder, which holds another
C23_Witness ==
    \E c \in Callers :
        /\ Finished(c, "move_email") /\ ret[c] = "True"
        /\ CmdNames(log[c]) = MoveProtocol /\ AllOk(c)
        /\ InFolder(Canon(args[c].target_folder), loc[c].moved)
        /\ ~InFolder(Canon(args[c].source_folder), loc[c].moved)
        /\ mailbox[Canon(args[c].source_folder)] # <<>>

\* C22: a handle of a listing keeps identifying its message for later moves
\* in the same session: after moves by handles of the listing in ascending
\* order, a move_email(h, F, T) of which every command was carried out has
\* moved the message that h was listed for: it is in T and no longer in F.
C22_HandleStable ==
    \A c \in Callers :
        /\ Finished(c, "move_email") /\ held[c].moves # <<>>
        /\ CmdNames(log[c]) = MoveProtocol /\ AllOk(c)
        => LET m == HeldMsg(c, args[c].message_id)
           IN  /\ loc[c].moved = m
               /\ InFolder(Canon(args[c].target_folder), m)
               /\ ~InFolder(Canon(args[c].source_folder), m)

\* C30: __enter__ calls connect() once (it opens at most one connection and
\* the block is entered whatever connect() returned); when the with-block
\* has been left, through the end of the body or through an exception,
\* disconnect() has run: the session has no handle, and a logout was sent on
\* the handle it had, also when that handle came from a failed login.
C30_WithDisconnects ==
    \A c \in Callers :
        /\ last[c].op = "__enter__" =>
              /\ within[c] \in {"body", "raised"}
              /\ NumOpened <= last[c].opened0 + 1
              /\ last[c].connected # "refused" => imap = NumOpened
        /\ last[c].op = "__exit__" =>
              /\ within[c] = "out"
              /\ imap = 0
              /\ last[c].imap0 # 0 =>
                    /\ CmdNames(log[c]) = <<"logout">>
                    /\ conn[last[c].imap0].logouts >= 1

\* a with-block left through an exception while the session was connected
C30_Witness ==
    \E c \in Callers :
        /\ last[c].op = "__exit__"
        /\ ret[c] = "exception"
        /\ last[c].imap0 # 0
        /\ imap = 0

====
